---- MODULE Spec2Model ----
(***************************************************************************)
(* Matching engine of PxPatel/Distributed-Matching-Engine.                 *)
(*                                                                         *)
(* The engine (internal/matching: Engine, OrderBook) with its default      *)
(* in-process order store (internal/storage/memory: InMemoryOrderStore)    *)
(* and its trade store.  Prices are positive integers (ticks); an Order    *)
(* object is identified by its ID, and `mem' is the heap of Order objects  *)
(* (the book and the order store both hold *Order pointers).               *)
(*                                                                         *)
(* The code of PlaceOrder and CancelOrder is translated once, as the step  *)
(* function Step over program points.  Spec runs every call to completion  *)
(* in one action (a single caller); SpecConc interleaves the steps of two  *)
(* callers, which is what the engine's missing lock allows.                *)
(***************************************************************************)
EXTENDS Integers, Sequences, FiniteSets, TLC

\* ------------------------------------------------------------------ bounds
MaxOrderID == 4         \* ids handed out by GenerateOrderID: 2..MaxOrderID
SmallMaxOrders == 1     \* a small configured MaxOrders, so that eviction happens
ConcSetupOrders == 2    \* SpecConc: orders placed before the concurrent calls
MaxStoreSize == 2       \* the configured capacities of the in-process stores: up to this
MaxSavedTrades == 3     \* SpecTrades: trades handed to the trade store
MaxStoredOrderID == 2   \* SpecOrders: the ids written to the composite order store
MaxMemoryOrderID == 3   \* SpecMemory: the ids saved to the in-process order store
MaxStoreCalls == 5      \* SpecMemory: calls made on the in-process order store
MaxLayeredOrderID == 3  \* SpecLayers: ids handed out: 2..MaxLayeredOrderID
MaxPricedOrderID == 4   \* SpecPrices: ids handed out: 2..MaxPricedOrderID

\* -------------------------------------------------------- program constants
DefaultMaxOrders == 100000
DefaultMaxTrades == 1000
MaxFloat64 == 2147483647
FirstOrderID == 1

\* ---------------------------------------------------------------- types
NoActionOrder == "NoActionOrder"
MarketOrder == "MarketOrder"
LimitOrder == "LimitOrder"
CancelOrder == "CancelOrder"
StopMarketOrder == "StopMarketOrder"
StopLimitOrder == "StopLimitOrder"
OrderTypes == {NoActionOrder, MarketOrder, LimitOrder, CancelOrder, StopMarketOrder, StopLimitOrder}

Buy == "Buy"
Sell == "Sell"
Sides == {Buy, Sell}

\* The limit prices and the quantities callers submit.
Prices == {1, 2}
Sizes == {1, 2}
OrderIDs == (FirstOrderID + 1)..MaxOrderID
Threads == {1, 2}

NewOrder(id, orderType, side, price, quantity) ==
  [ID |-> id, OrderType |-> orderType, Side |-> side, Price |-> price, Size |-> quantity]

\* ------------------------------------------------------------- map helpers
MapDelete(m, k) == [x \in DOMAIN m \ {k} |-> m[x]]
MapPut(m, k, v) == [x \in DOMAIN m \cup {k} |-> IF x = k THEN v ELSE m[x]]
MapGet(m, k) == IF k \in DOMAIN m THEN m[k] ELSE << >>
SetMax(S) == CHOOSE x \in S : \A y \in S : y <= x
SetMin(S) == CHOOSE x \in S : \A y \in S : y >= x
RemoveAtAndAfter(s, i) == SubSeq(s, 1, i - 1)
RemoveAt(s, i) == SubSeq(s, 1, i - 1) \o SubSeq(s, i + 1, Len(s))
Range(s) == {s[i] : i \in DOMAIN s}

\* ------------------------------------------------------------- OrderBook
NewOrderBook == [bids |-> << >>, asks |-> << >>]

GetBestBidWrongEnd(ob) ==
  IF DOMAIN ob.bids = {} THEN [price |-> 0, block |-> << >>]
  ELSE LET min == SetMin(DOMAIN ob.bids)
       IN  [price |-> min, block |-> MapGet(ob.bids, min)]

\* max := 0.0; for priceLevel := range bids { if priceLevel > max { max = priceLevel } }
GetBestBid(ob) ==
  IF DOMAIN ob.bids = {} THEN [price |-> 0, block |-> << >>]
  ELSE LET max == SetMax({0} \cup {p \in DOMAIN ob.bids : p > 0})
       IN  [price |-> max, block |-> MapGet(ob.bids, max)]

\* min := math.MaxFloat64; for priceLevel := range asks { if priceLevel < min { ... } }
GetBestAsk(ob) ==
  IF DOMAIN ob.asks = {} THEN [price |-> 0, block |-> << >>]
  ELSE LET min == SetMin({MaxFloat64} \cup {p \in DOMAIN ob.asks : p < MaxFloat64})
       IN  [price |-> min, block |-> MapGet(ob.asks, min)]

\* The map is ranged over in no fixed order; the first order with the id is returned.
findOrderInBookSide(bookSide, orderId) ==
  LET hits == {pi \in UNION {{<<p, i>> : i \in DOMAIN bookSide[p]} : p \in DOMAIN bookSide} :
                 bookSide[pi[1]][pi[2]] = orderId}
  IN  IF hits = {} THEN [ok |-> FALSE, priceLevel |-> 0, index |-> 0]
      ELSE LET h == CHOOSE h \in hits : TRUE
           IN  [ok |-> TRUE, priceLevel |-> h[1], index |-> h[2]]

DeleteSideOrderKeepLevel(bookSide, orderId) ==
  LET f == findOrderInBookSide(bookSide, orderId)
  IN  IF f.ok
      THEN [side |-> MapPut(bookSide, f.priceLevel, RemoveAt(bookSide[f.priceLevel], f.index)),
            ok |-> TRUE]
      ELSE [side |-> bookSide, ok |-> FALSE]

DeleteSideOrderWholeLevel(bookSide, orderId) ==
  LET f == findOrderInBookSide(bookSide, orderId)
  IN  IF f.ok THEN [side |-> MapDelete(bookSide, f.priceLevel), ok |-> TRUE]
      ELSE [side |-> bookSide, ok |-> FALSE]

\* The body shared by DeleteBidOrder and DeleteAskOrder.
DeleteSideOrder(bookSide, orderId) ==
  LET f == findOrderInBookSide(bookSide, orderId)
  IN  IF f.ok
      THEN LET block == RemoveAt(bookSide[f.priceLevel], f.index)
           IN  [side |-> IF Len(block) = 0 THEN MapDelete(bookSide, f.priceLevel)
                         ELSE MapPut(bookSide, f.priceLevel, block),
                ok |-> TRUE]
      ELSE [side |-> bookSide, ok |-> FALSE]

DeleteBidOrder(ob, orderId) ==
  LET r == DeleteSideOrder(ob.bids, orderId)
  IN  [ob |-> [ob EXCEPT !.bids = r.side], ok |-> r.ok]

DeleteAskOrder(ob, orderId) ==
  LET r == DeleteSideOrder(ob.asks, orderId)
  IN  [ob |-> [ob EXCEPT !.asks = r.side], ok |-> r.ok]

AddSideOrderAtHead(bookSide, o) == MapPut(bookSide, o.Price, <<o.ID>> \o MapGet(bookSide, o.Price))

\* block := side[newOrder.Price]; block = append(block, newOrder); side[newOrder.Price] = block
AddSideOrder(bookSide, o) == MapPut(bookSide, o.Price, Append(MapGet(bookSide, o.Price), o.ID))

AddBidOrder(ob, o) == [ob EXCEPT !.bids = AddSideOrder(ob.bids, o)]

AddAskOrder(ob, o) == [ob EXCEPT !.asks = AddSideOrder(ob.asks, o)]

\* ----------------------------------------------------- InMemoryOrderStore
NewInMemoryOrderStore(maxSize) == [orders |-> {}, orderIDs |-> << >>, maxSize |-> maxSize]

SaveMovesToBack(s, id) ==
  LET q == Append(SelectSeq(s.orderIDs, LAMBDA x : x # id), id)
  IN  IF Len(q) > s.maxSize
      THEN [s EXCEPT !.orders = (s.orders \ {q[1]}) \cup {id}, !.orderIDs = Tail(q)]
      ELSE [s EXCEPT !.orders = s.orders \cup {id}, !.orderIDs = q]

\* if _, exists := s.orders[order.ID]; !exists { s.orderIDs = append(s.orderIDs, order.ID)
\*   if len(s.orderIDs) > s.maxSize { delete(s.orders, s.orderIDs[0]); s.orderIDs = s.orderIDs[1:] } }
\* s.orders[order.ID] = order
Save(s, id) ==
  IF id \notin s.orders
  THEN LET q == Append(s.orderIDs, id)
       IN  IF Len(q) > s.maxSize
           THEN [s EXCEPT !.orders = (s.orders \ {q[1]}) \cup {id}, !.orderIDs = Tail(q)]
           ELSE [s EXCEPT !.orders = s.orders \cup {id}, !.orderIDs = q]
  ELSE s

\* order, exists := s.orders[orderID]; if !exists { return nil, fmt.Errorf(...) }
Get(s, id) == [found |-> id \in s.orders, err |-> IF id \in s.orders THEN "nil" ELSE "not found"]

\* delete(s.orders, orderID); the first occurrence of orderID leaves s.orderIDs
Remove(s, id) ==
  LET hits == {i \in DOMAIN s.orderIDs : s.orderIDs[i] = id}
  IN  [s EXCEPT !.orders = s.orders \ {id},
                !.orderIDs = IF hits = {} THEN s.orderIDs
                             ELSE RemoveAt(s.orderIDs, SetMin(hits))]

\* ------------------------------------------------------------------ Engine
\* The engine's data as one value: e.orderBook, e.orderStore, e.tradeStore are the
\* Engine's fields, e.mem the Order objects they point to.
NewEngineWithConfig(maxOrders) ==
  [orderBook |-> NewOrderBook,
   orderStore |-> NewInMemoryOrderStore(maxOrders),
   tradeStore |-> << >>,
   mem |-> << >>]

TrackOrder(e, id) == [e EXCEPT !.orderStore = Save(e.orderStore, id)]

UntrackOrderKeep(e, id) == e

UntrackOrder(e, id) == [e EXCEPT !.orderStore = Remove(e.orderStore, id)]

AddTradeToHistoryAtHead(e, trade) == [e EXCEPT !.tradeStore = <<trade>> \o e.tradeStore]

AddTradeToHistory(e, trade) == [e EXCEPT !.tradeStore = Append(e.tradeStore, trade)]

createTradeAtIncomingPrice(incoming, opposite, size) ==
  IF incoming.Side = Buy
  THEN [BuyOrderID |-> incoming.ID, SellOrderID |-> opposite.ID, Price |-> incoming.Price, Size |-> size]
  ELSE [BuyOrderID |-> opposite.ID, SellOrderID |-> incoming.ID, Price |-> incoming.Price, Size |-> size]

createTrade(incoming, opposite, size) ==
  IF incoming.Side = Buy
  THEN [BuyOrderID |-> incoming.ID, SellOrderID |-> opposite.ID, Price |-> opposite.Price, Size |-> size]
  ELSE [BuyOrderID |-> opposite.ID, SellOrderID |-> incoming.ID, Price |-> opposite.Price, Size |-> size]

canMatchAlways(side, limitPrice, bestPrice) == TRUE

canMatchStrict(side, limitPrice, bestPrice) ==
  IF side = Buy THEN limitPrice > bestPrice ELSE limitPrice < bestPrice

\* Buy: limitPrice >= bestPrice (buy at or above ask); Sell: limitPrice <= bestPrice.
canMatch(side, limitPrice, bestPrice) ==
  IF side = Buy THEN limitPrice >= bestPrice ELSE limitPrice <= bestPrice

\* getBestPrice / deleteOrder / addOrder as executeMarketOrder and executeLimitOrder bind them.
getBestPrice(ob, side) == IF side = Buy THEN GetBestAsk(ob) ELSE GetBestBid(ob)

deleteOrder(ob, side, id) == IF side = Buy THEN DeleteAskOrder(ob, id) ELSE DeleteBidOrder(ob, id)

addOrderWrongSide(ob, o) == IF o.Side = Buy THEN AddAskOrder(ob, o) ELSE AddBidOrder(ob, o)

addOrder(ob, o) == IF o.Side = Buy THEN AddBidOrder(ob, o) ELSE AddAskOrder(ob, o)

fillSizeWhole(sizeRemaining, oppositeSize) == sizeRemaining

fillSizeResting(sizeRemaining, oppositeSize) == oppositeSize

\* fillSize := sizeRemaining; if oppositeOrder.Size < sizeRemaining { fillSize = oppositeOrder.Size }
fillSizeOf(sizeRemaining, oppositeSize) ==
  IF oppositeSize < sizeRemaining THEN oppositeSize ELSE sizeRemaining

\* A call in progress: the program point and the locals of PlaceOrder / CancelOrder.
\* `fills' is a record of what the matching loop saw at each fill, kept for the
\* properties; the code does not read it.
IdleFrame ==
  [pc |-> "idle", incoming |-> NewOrder(0, NoActionOrder, Buy, 0, 0), sizeRemaining |-> 0,
   trades |-> << >>, opposite |-> 0, fillSize |-> 0, saved |-> 0, deleted |-> FALSE,
   fills |-> << >>]

PlaceFrameNoDispatch(o) ==
  [IdleFrame EXCEPT !.pc = "loop", !.incoming = o, !.sizeRemaining = o.Size]

PlaceFrame(o) == [IdleFrame EXCEPT !.pc = "PlaceOrder", !.incoming = o]

CancelFrame(orderId) ==
  [IdleFrame EXCEPT !.pc = "CancelOrder", !.incoming = NewOrder(orderId, CancelOrder, Buy, 0, 0)]

Returned(f) == f.pc \in {"return", "returnNil", "returnBool"}

\* Where PlaceOrder goes once the matching function has returned: to the loop over
\* the trades (AddTradeToHistory), then to the untracking of a MARKET order.
AfterHistory(o) == IF o.OrderType = MarketOrder THEN "untrackMarket" ELSE "return"
AfterExecute(o, trades) == IF Len(trades) > 0 THEN "history" ELSE AfterHistory(o)

\* One step of PlaceOrder / CancelOrder and the functions they call, from program
\* point f.pc: one access to the book, to an Order object or to a store, with the
\* statements on locals around it.
Step(e, f) ==
  LET o == f.incoming IN
  CASE f.pc = "PlaceOrder" ->
         \* if incomingOrder.OrderType != CancelOrder { e.TrackOrder(incomingOrder) }
         \* switch incomingOrder.OrderType; sizeRemaining := incomingOrder.Size
         [e |-> IF o.OrderType # CancelOrder THEN TrackOrder(e, o.ID) ELSE e,
          f |-> CASE o.OrderType \in {MarketOrder, LimitOrder} ->
                       [f EXCEPT !.pc = "loop", !.sizeRemaining = e.mem[o.ID].Size]
                  [] o.OrderType = CancelOrder -> [f EXCEPT !.pc = "CancelOrder"]
                  [] OTHER -> [f EXCEPT !.pc = "returnNil"]]
    [] f.pc = "loop" ->
         \* for sizeRemaining > 0 { bestPrice, orderBlock := getBestPrice()
         \*   if len(orderBlock) == 0 || !canMatch(incomingOrder.Price, bestPrice) { break }
         \*   oppositeOrder := orderBlock[0]
         LET best == getBestPrice(e.orderBook, o.Side)
             break == \/ f.sizeRemaining <= 0
                      \/ Len(best.block) = 0
                      \/ o.OrderType = LimitOrder /\ ~canMatch(o.Side, o.Price, best.price)
         IN  IF ~break
             THEN [e |-> e, f |-> [f EXCEPT !.pc = "fill", !.opposite = best.block[1]]]
             ELSE IF o.OrderType = LimitOrder
                  THEN [e |-> e, f |-> [f EXCEPT !.pc = "rest"]]
                  ELSE [e |-> e, f |-> [f EXCEPT !.pc = AfterExecute(o, f.trades)]]
    [] f.pc = "fill" ->
         \* fillSize := min(sizeRemaining, oppositeOrder.Size)
         \* trade := e.createTrade(...); trades = append(trades, trade)
         LET opp == e.mem[f.opposite]
             fillSize == fillSizeOf(f.sizeRemaining, opp.Size)
         IN  [e |-> e,
              f |-> [f EXCEPT !.pc = "update", !.fillSize = fillSize,
                              !.trades = Append(@, createTrade(o, opp, fillSize)),
                              !.fills = Append(@, [resting |-> f.opposite,
                                                   orderBook |-> e.orderBook,
                                                   mem |-> e.mem])]]
    [] f.pc = "update" ->
         \* sizeRemaining -= fillSize; oppositeOrder.Size -= fillSize
         \* if oppositeOrder.Size == 0 {
         LET size == e.mem[f.opposite].Size - f.fillSize
         IN  [e |-> [e EXCEPT !.mem[f.opposite].Size = size],
              f |-> [f EXCEPT !.pc = IF size = 0 THEN "deleteOrder" ELSE "loop",
                              !.sizeRemaining = @ - f.fillSize]]
    [] f.pc = "deleteOrder" ->
         \* deleteOrder(oppositeOrder.ID)
         [e |-> [e EXCEPT !.orderBook = deleteOrder(e.orderBook, o.Side, f.opposite).ob],
          f |-> [f EXCEPT !.pc = "untrackOpposite"]]
    [] f.pc = "untrackOpposite" ->
         \* e.UntrackOrder(oppositeOrder.ID) }
         [e |-> UntrackOrder(e, f.opposite), f |-> [f EXCEPT !.pc = "loop"]]
    [] f.pc = "rest" ->
         IF f.sizeRemaining > 0
         \* incomingOrder.Size = sizeRemaining; addOrder(incomingOrder)
         THEN [e |-> [e EXCEPT !.mem[o.ID].Size = f.sizeRemaining,
                               !.orderBook = addOrder(e.orderBook, o)],
               f |-> [f EXCEPT !.pc = AfterExecute(o, f.trades)]]
         \* e.UntrackOrder(incomingOrder.ID)
         ELSE [e |-> UntrackOrder(e, o.ID), f |-> [f EXCEPT !.pc = AfterExecute(o, f.trades)]]
    [] f.pc = "history" ->
         \* for _, trade := range trades { e.AddTradeToHistory(trade) }
         [e |-> AddTradeToHistory(e, f.trades[f.saved + 1]),
          f |-> [f EXCEPT !.saved = @ + 1,
                          !.pc = IF f.saved + 1 < Len(f.trades) THEN "history"
                                 ELSE AfterHistory(o)]]
    [] f.pc = "untrackMarket" ->
         \* if incomingOrder.OrderType == MarketOrder { e.UntrackOrder(incomingOrder.ID) }
         [e |-> UntrackOrder(e, o.ID), f |-> [f EXCEPT !.pc = "return"]]
    [] f.pc = "CancelOrder" ->
         \* DeleteOrderById: orderBook.DeleteBidOrder(orderId) || ...
         LET r == DeleteBidOrder(e.orderBook, o.ID)
         IN  [e |-> [e EXCEPT !.orderBook = r.ob],
              f |-> [f EXCEPT !.pc = IF r.ok THEN "cancelUntrack" ELSE "deleteAsk",
                              !.deleted = r.ok]]
    [] f.pc = "deleteAsk" ->
         \* ... || orderBook.DeleteAskOrder(orderId)
         LET r == DeleteAskOrder(e.orderBook, o.ID)
         IN  [e |-> [e EXCEPT !.orderBook = r.ob],
              f |-> [f EXCEPT !.pc = IF r.ok THEN "cancelUntrack" ELSE "returnBool",
                              !.deleted = r.ok]]
    [] f.pc = "cancelUntrack" ->
         \* if deleted { e.UntrackOrder(orderId) }
         [e |-> UntrackOrder(e, o.ID), f |-> [f EXCEPT !.pc = "returnBool"]]
    [] OTHER -> [e |-> e, f |-> f]

RECURSIVE Run(_, _)
\* The call run to its return by a single caller.
Run(e, f) == IF Returned(f) \/ f.pc = "idle" THEN [e |-> e, f |-> f]
             ELSE LET r == Step(e, f) IN Run(r.e, r.f)

\* PlaceOrder(incomingOrder) and CancelOrder(orderId), whole, on engine e.
PlaceOrderOn(e, o) ==
  Run(IF o.OrderType = CancelOrder THEN e ELSE [e EXCEPT !.mem = MapPut(e.mem, o.ID, o)],
      PlaceFrame(o))

CancelOrderOn(e, orderId) == Run(e, CancelFrame(orderId))

\* ------------------------------------------------------------- trade stores
\* A trade as the stores receive it.  createTrade stamps time.Now(); the k-th trade
\* handed to a store carries the k-th reading of the clock.
TradeNo(k) == [BuyOrderID |-> 2 * k, SellOrderID |-> 2 * k + 1, Price |-> 1, Size |-> 1, Timestamp |-> k]

NewInMemoryTradeStore(maxSize) == [trades |-> << >>, maxSize |-> maxSize]

TrimOldestKept(trades, maxSize) ==
  IF Len(trades) > maxSize THEN SubSeq(trades, 1, maxSize) ELSE trades

\* if len(s.trades) > s.maxSize { s.trades = s.trades[len(s.trades)-s.maxSize:] }
Trim(trades, maxSize) ==
  IF Len(trades) > maxSize THEN SubSeq(trades, Len(trades) - maxSize + 1, Len(trades)) ELSE trades

\* s.trades = append(s.trades, trade), trimmed
InMemoryTradeStoreSave(s, trade) == [s EXCEPT !.trades = Trim(Append(@, trade), s.maxSize)]

\* s.trades = append(s.trades, trades...), trimmed
InMemoryTradeStoreSaveBatch(s, trades) == [s EXCEPT !.trades = Trim(@ \o trades, s.maxSize)]

\* if limit <= 0 || limit > len(s.trades) { limit = len(s.trades) }
\* start := len(s.trades) - limit; copy(result, s.trades[start:])
InMemoryTradeStoreGetRecent(s, limit) ==
  LET n == IF limit <= 0 \/ limit > Len(s.trades) THEN Len(s.trades) ELSE limit
  IN  SubSeq(s.trades, Len(s.trades) - n + 1, Len(s.trades))

\* json.Encoder.Encode(trade): one line with the Trade's JSON fields; trade_id is
\* omitted when zero, and the engine never sets it.
Encode(trade) ==
  [buy_order_id |-> trade.BuyOrderID, sell_order_id |-> trade.SellOrderID,
   price |-> trade.Price, quantity |-> trade.Size, timestamp |-> trade.Timestamp]

\* The file opened O_APPEND, no goroutine started.  `goroutines' are the
\* `go func() { ... }()' of Save / SaveBatch that have not finished: the trades each
\* has still to encode, and whether it holds s.mutex.
NewFileTradeStore == [file |-> << >>, closed |-> FALSE, goroutines |-> {}]

\* go func() { s.mutex.Lock(); defer s.mutex.Unlock(); _ = s.encoder.Encode(trade) }(); return nil
FileTradeStoreSave(s, trade) ==
  [s EXCEPT !.goroutines = @ \cup {[trades |-> <<trade>>, locked |-> FALSE]}]

\* go func() { s.mutex.Lock(); ...; for _, trade := range trades { _ = s.encoder.Encode(trade) } }()
FileTradeStoreSaveBatch(s, trades) ==
  [s EXCEPT !.goroutines = @ \cup {[trades |-> trades, locked |-> FALSE]}]

\* return []*types.Trade{}, nil
FileTradeStoreGetRecent(s, limit) == << >>

\* s.file.Close(): taken without s.mutex, whatever the goroutines are doing
FileTradeStoreClose(s) == [s EXCEPT !.closed = TRUE]

\* A goroutine may run when no other goroutine holds s.mutex.
MayRun(s, g) == g \in s.goroutines /\ \A h \in s.goroutines : h.locked => h = g

\* One Encode of goroutine g, with the Lock before its first and the Unlock after its
\* last.  A write to the closed file fails and the error is dropped.
GoroutineEncode(s, g) ==
  LET rest == Tail(g.trades)
      left == IF rest = << >> THEN {} ELSE {[trades |-> rest, locked |-> TRUE]}
  IN  [s EXCEPT !.file = IF s.closed THEN @ ELSE Append(@, Encode(Head(g.trades))),
                !.goroutines = (@ \ {g}) \cup left]

\* CompositeTradeStore over [memory, file], as NewEngineWithConfig builds it: every
\* store's Save is called; neither returns an error.
CompositeTradeStoreSave(m, f, trade) ==
  [memory |-> InMemoryTradeStoreSave(m, trade), file |-> FileTradeStoreSave(f, trade)]

CompositeTradeStoreSaveBatch(m, f, trades) ==
  [memory |-> InMemoryTradeStoreSaveBatch(m, trades), file |-> FileTradeStoreSaveBatch(f, trades)]

\* the first store whose GetRecent returns data
CompositeTradeStoreGetRecent(m, f, limit) ==
  IF Len(InMemoryTradeStoreGetRecent(m, limit)) > 0 THEN InMemoryTradeStoreGetRecent(m, limit)
  ELSE FileTradeStoreGetRecent(f, limit)

\* ---------------------------------------------------- CompositeOrderStore
\* The errors a store returns: nil, fmt.Errorf("order %d not found", id), and the
\* error of a remote call (deadline exceeded, connection lost).
Nil == "nil"
NotFound == "not found"
Timeout == "timeout"

\* The layers buildStorageLayers stacks: the in-process store, then the Redis store.
MemoryLayer(maxSize) == [kind |-> "memory", s |-> NewInMemoryOrderStore(maxSize)]
RedisLayer == [kind |-> "redis", s |-> [orders |-> {}]]

\* store.Save(order).  `down' says the remote call of this layer fails; a failed
\* pipeline is taken to have written nothing.
StoreSave(layer, id, down) ==
  IF layer.kind = "memory" THEN [layer |-> [layer EXCEPT !.s = Save(@, id)], err |-> Nil]
  ELSE IF down THEN [layer |-> layer, err |-> Timeout]
  ELSE [layer |-> [layer EXCEPT !.s.orders = @ \cup {id}], err |-> Nil]

\* store.Get(orderID): both stores report a missing id as an error value
StoreGet(layer, id, down) ==
  IF layer.kind = "redis" /\ down THEN [found |-> FALSE, err |-> Timeout]
  ELSE IF id \in layer.s.orders THEN [found |-> TRUE, err |-> Nil]
  ELSE [found |-> FALSE, err |-> NotFound]

\* store.Remove(orderID): the in-process store deletes and returns nil; the Redis
\* store gets the order first and returns the error of that Get
StoreRemove(layer, id, down) ==
  IF layer.kind = "memory" THEN [layer |-> [layer EXCEPT !.s = Remove(@, id)], err |-> Nil]
  ELSE IF StoreGet(layer, id, down).err # Nil THEN [layer |-> layer, err |-> StoreGet(layer, id, down).err]
  ELSE [layer |-> [layer EXCEPT !.s.orders = @ \ {id}], err |-> Nil]

\* store.Update(order): the in-process store refuses an unknown id; the Redis store saves
StoreUpdate(layer, id, down) ==
  IF layer.kind = "memory"
  THEN [layer |-> layer, err |-> IF id \in layer.s.orders THEN Nil ELSE NotFound]
  ELSE StoreSave(layer, id, down)

StoreWrite(op, layer, id, down) ==
  CASE op = "Save" -> StoreSave(layer, id, down)
    [] op = "Remove" -> StoreRemove(layer, id, down)
    [] op = "Update" -> StoreUpdate(layer, id, down)

RECURSIVE WriteThroughUntilError(_, _, _, _, _)
WriteThroughUntilError(op, ss, id, down, i) ==
  IF i > Len(ss) THEN [stores |-> ss, errs |-> << >>, ret |-> Nil]
  ELSE LET w == StoreWrite(op, ss[i], id, i \in down)
       IN  IF w.err # Nil THEN [stores |-> [ss EXCEPT ![i] = w.layer], errs |-> <<w.err>>, ret |-> w.err]
           ELSE LET rest == WriteThroughUntilError(op, [ss EXCEPT ![i] = w.layer], id, down, i + 1)
                IN  [rest EXCEPT !.errs = <<w.err>> \o @]

RECURSIVE WriteThrough(_, _, _, _, _)
\* var lastErr error
\* for _, store := range c.stores { if err := store.Op(...); err != nil { lastErr = err } }
\* return lastErr
\* `errs' is what each store returned, kept for the properties.
WriteThrough(op, ss, id, down, i) ==
  IF i > Len(ss) THEN [stores |-> ss, errs |-> << >>, ret |-> Nil]
  ELSE LET w == StoreWrite(op, ss[i], id, i \in down)
           rest == WriteThrough(op, [ss EXCEPT ![i] = w.layer], id, down, i + 1)
       IN  [rest EXCEPT !.errs = <<w.err>> \o @,
                        !.ret = IF rest.ret # Nil THEN rest.ret ELSE w.err]

CompositeOrderStoreSave(ss, id, down) == WriteThrough("Save", ss, id, down, 1)
CompositeOrderStoreRemove(ss, id, down) == WriteThrough("Remove", ss, id, down, 1)
CompositeOrderStoreUpdate(ss, id, down) == WriteThrough("Update", ss, id, down, 1)

RECURSIVE CompositeOrderStoreGetFrom(_, _, _, _)
\* for _, store := range c.stores { order, err := store.Get(orderID)
\*   if err == nil && order != nil { return order, nil } }
\* return nil, nil
CompositeOrderStoreGetFrom(ss, id, down, i) ==
  IF i > Len(ss) THEN [found |-> FALSE, err |-> Nil, layer |-> 0]
  ELSE IF StoreGet(ss[i], id, i \in down).err = Nil /\ StoreGet(ss[i], id, i \in down).found
       THEN [found |-> TRUE, err |-> Nil, layer |-> i]
       ELSE CompositeOrderStoreGetFrom(ss, id, down, i + 1)

CompositeOrderStoreGet(ss, id, down) == CompositeOrderStoreGetFrom(ss, id, down, 1)

\* ------------------------------------------------------ GetTopOfBookHandler
\* The handler's locals.  A quote that is nil is << >>.
IdleReader ==
  [pc |-> "idle", bestBidPrice |-> 0, bestBidOrders |-> << >>,
   bestAskPrice |-> 0, bestAskOrders |-> << >>, bestBid |-> << >>, bestAsk |-> << >>]

RECURSIVE TotalQty(_, _)
\* totalQty := 0; for _, order := range orders { totalQty += order.Size }
TotalQty(heap, orders) ==
  IF orders = << >> THEN 0 ELSE heap[Head(orders)].Size + TotalQty(heap, Tail(orders))

BestQuote(heap, price, orders) ==
  IF Len(orders) > 0 THEN [Price |-> price, Quantity |-> TotalQty(heap, orders)] ELSE << >>

\* One step of GetTopOfBookHandler on engine e: one read of the book or of the Order
\* objects.  The handler takes no lock and changes nothing.
ReaderStep(e, r) ==
  CASE r.pc = "GetBestBid" ->
         [r EXCEPT !.pc = "GetBestAsk", !.bestBidPrice = GetBestBid(e.orderBook).price,
                   !.bestBidOrders = GetBestBid(e.orderBook).block]
    [] r.pc = "GetBestAsk" ->
         [r EXCEPT !.pc = "bestBid", !.bestAskPrice = GetBestAsk(e.orderBook).price,
                   !.bestAskOrders = GetBestAsk(e.orderBook).block]
    [] r.pc = "bestBid" ->
         [r EXCEPT !.pc = "bestAsk", !.bestBid = BestQuote(e.mem, r.bestBidPrice, r.bestBidOrders)]
    [] r.pc = "bestAsk" ->
         [r EXCEPT !.pc = "response", !.bestAsk = BestQuote(e.mem, r.bestAskPrice, r.bestAskOrders)]
    [] OTHER -> r

\* models.TopOfBookResponse: BestBid, BestAsk
TopOfBookResponse(r) == [BestBid |-> r.bestBid, BestAsk |-> r.bestAsk]

\* The response of a request served with nothing else running.
TopOfBook(e) ==
  TopOfBookResponse(ReaderStep(e, ReaderStep(e, ReaderStep(e, ReaderStep(e,
    [IdleReader EXCEPT !.pc = "GetBestBid"])))))

\* ------------------------------------------- the engine over storage layers
\* main: NewEngineWithStores(buildStorageLayers(cfg)) with the in-process layer and the
\* Redis layer.  The in-process stores are the engine's orderStore and tradeStore
\* above; the Redis server's data is b.redis.

\* json.Marshal(order): a copy of the Order's fields as they are at the call
Marshal(order) ==
  [ID |-> order.ID, OrderType |-> order.OrderType, Side |-> order.Side, Price |-> order.Price,
   StopPrice |-> 0, Size |-> order.Size]

\* RedisOrderStore.Save: SET order:{id}; a pipeline that fails has written nothing
RedisOrderStoreSave(rd, order, down) ==
  IF down THEN [redis |-> rd, err |-> Timeout]
  ELSE [redis |-> [rd EXCEPT !.orders = MapPut(@, order.ID, Marshal(order))], err |-> Nil]

\* RedisOrderStore.Remove: Get first, then DEL order:{id}
RedisOrderStoreRemove(rd, id, down) ==
  IF down THEN [redis |-> rd, err |-> Timeout]
  ELSE IF id \notin DOMAIN rd.orders THEN [redis |-> rd, err |-> NotFound]
  ELSE [redis |-> [rd EXCEPT !.orders = MapDelete(@, id)], err |-> Nil]

\* RedisTradeStore.Save: ZADD trades:recent with the timestamp as score
RedisTradeStoreSave(rd, trade, down) ==
  IF down THEN [redis |-> rd, err |-> Timeout]
  ELSE [redis |-> [rd EXCEPT !.trades = Append(@, trade)], err |-> Nil]

\* The program points of PlaceOrder / CancelOrder that call a store.
StorePoints == {"PlaceOrder", "untrackOpposite", "rest", "history", "untrackMarket", "cancelUntrack"}

\* The store call made at program point f.pc: TrackOrder -> orderStore.Save,
\* UntrackOrder -> orderStore.Remove, AddTradeToHistory -> tradeStore.Save.
StoreOp(f) ==
  CASE f.pc = "PlaceOrder" /\ f.incoming.OrderType # CancelOrder -> [op |-> "Save", id |-> f.incoming.ID]
    [] f.pc = "untrackOpposite" -> [op |-> "Remove", id |-> f.opposite]
    [] f.pc = "rest" /\ f.sizeRemaining <= 0 -> [op |-> "Remove", id |-> f.incoming.ID]
    [] f.pc \in {"untrackMarket", "cancelUntrack"} -> [op |-> "Remove", id |-> f.incoming.ID]
    [] f.pc = "history" -> [op |-> "SaveTrade", id |-> f.saved + 1]
    [] OTHER -> [op |-> "none", id |-> 0]

\* The Redis layer's part of the composite call at f.pc; `down' are the program
\* points at which the Redis call fails.
RedisCall(e, rd, f, down) ==
  CASE StoreOp(f).op = "Save" -> RedisOrderStoreSave(rd, e.mem[StoreOp(f).id], f.pc \in down)
    [] StoreOp(f).op = "Remove" -> RedisOrderStoreRemove(rd, StoreOp(f).id, f.pc \in down)
    [] StoreOp(f).op = "SaveTrade" -> RedisTradeStoreSave(rd, f.trades[StoreOp(f).id], f.pc \in down)
    [] OTHER -> [redis |-> rd, err |-> Nil]

LayeredStepReturnsError(e, b, f, down) ==
  LET r == Step(e, f)
      c == RedisCall(e, b.redis, f, down)
  IN  IF c.err = Timeout
      THEN [e |-> r.e, b |-> b, f |-> [f EXCEPT !.pc = "returnNil", !.trades = << >>]]
      ELSE [e |-> r.e, b |-> [b EXCEPT !.redis = c.redis], f |-> r.f]

\* One step of the call with the composite stores: the engine's step with the
\* in-process layer, and the Redis layer's call; `_ = e.orderStore.Save(order)' and
\* the like drop what the composite returns.
LayeredStep(e, b, f, down) ==
  LET r == Step(e, f)
      c == RedisCall(e, b.redis, f, down)
  IN  [e |-> r.e, b |-> [b EXCEPT !.redis = c.redis], f |-> r.f]

RECURSIVE RunLayered(_, _, _, _)
RunLayered(e, b, f, down) ==
  IF Returned(f) \/ f.pc = "idle" THEN [e |-> e, b |-> b, f |-> f]
  ELSE LET r == LayeredStep(e, b, f, down) IN RunLayered(r.e, r.b, r.f, down)

\* PlaceOrder(incomingOrder) and CancelOrder(orderId), whole, over the layers.
LayeredPlaceOrderOn(e, b, o, down) ==
  RunLayered([e EXCEPT !.mem = MapPut(e.mem, o.ID, o)], b, PlaceFrame(o), down)

LayeredCancelOrderOn(e, b, orderId, down) == RunLayered(e, b, CancelFrame(orderId), down)

\* ------------------------------------------------------- buildStorageLayers
\* config.Config as buildStorageLayers reads it: cfg.Memory.Enabled, cfg.Redis.Enabled,
\* cfg.Database.Enabled.  Load() defaults: memory on, Redis and the database off.
Configs == [Memory : BOOLEAN, Redis : BOOLEAN, Database : BOOLEAN]
DefaultConfig == [Memory |-> TRUE, Redis |-> FALSE, Database |-> FALSE]

\* The constructors buildStorageLayers calls that can return an error (each store
\* opens its own connection or file), and the nil store a failed one returns.
Constructors ==
  {"NewRedisOrderStore", "NewRedisTradeStore", "NewPostgresOrderStore", "NewPostgresTradeStore",
   "NewFileTradeStore"}
NilStore == "nil"

AppendIf(s, cond, x) == IF cond THEN Append(s, x) ELSE s

\* The stores appended to orderStores and tradeStores, in order; `failed' are the
\* constructors that return an error.  A layer's trade store is constructed after its
\* order store succeeded, `redisTradeStore, _ := ...', and appended as returned.
buildStorageLayers(cfg, failed) ==
  LET redis == cfg.Redis /\ "NewRedisOrderStore" \notin failed
      postgres == cfg.Database /\ "NewPostgresOrderStore" \notin failed
      redisTradeStore == IF "NewRedisTradeStore" \in failed THEN NilStore ELSE "redis"
      pgTradeStore == IF "NewPostgresTradeStore" \in failed THEN NilStore ELSE "postgres"
      orderStores == AppendIf(AppendIf(AppendIf(<< >>, cfg.Memory, "memory"), redis, "redis"),
                              postgres, "postgres")
      tradeStores == AppendIf(AppendIf(AppendIf(AppendIf(<< >>, cfg.Memory, "memory"),
                                                redis, redisTradeStore),
                                       postgres, pgTradeStore),
                              "NewFileTradeStore" \notin failed, "file")
  IN  [cfg |-> cfg, failed |-> failed, orderStores |-> orderStores, tradeStores |-> tradeStores]

\* What the Redis server and the database hold when the process starts against empty
\* ones: the orders by id, as serialised, and the trades by timestamp, oldest first.
NewBackends ==
  [redis |-> [orders |-> << >>, trades |-> << >>],
   postgres |-> [orders |-> << >>, trades |-> << >>]]

\* ------------------------------------------- CompositeTradeStore, any stack
\* The trade stores of a deployment as one value: st.memory the InMemoryTradeStore,
\* st.file the FileTradeStore, st.b the Redis server's and the database's data.
Panic == "panic"

Reverse(trades) == [i \in 1..Len(trades) |-> trades[Len(trades) - i + 1]]

\* The `limit' highest-ranked trades, highest first: ZREVRANGE trades:recent 0 limit-1,
\* and SELECT ... ORDER BY timestamp DESC LIMIT $1.
LatestFirst(trades, limit) ==
  SubSeq(Reverse(trades), 1, IF limit < Len(trades) THEN limit ELSE Len(trades))

\* store.Save(trade) of the store of one kind; `down': its remote call fails.
TradeStoreSaveAt(kind, st, trade, down) ==
  CASE kind = "memory" -> [st EXCEPT !.memory = InMemoryTradeStoreSave(@, trade)]
    [] kind = "redis" -> [st EXCEPT !.b.redis = RedisTradeStoreSave(@, trade, down).redis]
    [] kind = "postgres" -> [st EXCEPT !.b.postgres.trades = IF down THEN @ ELSE Append(@, trade)]
    [] kind = "file" -> [st EXCEPT !.file = FileTradeStoreSave(@, trade)]

\* store.GetRecent(limit) of the store of one kind
TradeStoreGetRecentAt(kind, st, limit, down) ==
  CASE kind = "memory" -> [trades |-> InMemoryTradeStoreGetRecent(st.memory, limit), err |-> Nil]
    [] kind = "redis" -> IF down THEN [trades |-> << >>, err |-> Timeout]
                         ELSE [trades |-> LatestFirst(st.b.redis.trades, limit), err |-> Nil]
    [] kind = "postgres" -> IF down THEN [trades |-> << >>, err |-> Timeout]
                            ELSE [trades |-> LatestFirst(st.b.postgres.trades, limit), err |-> Nil]
    [] kind = "file" -> [trades |-> FileTradeStoreGetRecent(st.file, limit), err |-> Nil]

RECURSIVE SaveThrough(_, _, _, _, _)
\* for _, store := range c.stores { if err := store.Save(trade); err != nil { lastErr = err } }
\* A nil *RedisTradeStore / *PostgresTradeStore in the stack is dereferenced by its
\* Save: the call panics there, the stores after it are not written.
SaveThrough(ts, st, trade, down, i) ==
  IF i > Len(ts) THEN [st |-> st, ret |-> Nil]
  ELSE IF ts[i] = NilStore THEN [st |-> st, ret |-> Panic]
  ELSE SaveThrough(ts, TradeStoreSaveAt(ts[i], st, trade, ts[i] \in down), trade, down, i + 1)

RECURSIVE GetRecentThrough(_, _, _, _, _)
\* for _, store := range c.stores { trades, err := store.GetRecent(limit)
\*   if err != nil { continue }; if len(trades) > 0 { return trades, nil } }
\* return []*types.Trade{}, nil
GetRecentThrough(ts, st, limit, down, i) ==
  IF i > Len(ts) THEN [trades |-> << >>, ret |-> Nil, layer |-> 0]
  ELSE IF ts[i] = NilStore THEN [trades |-> << >>, ret |-> Panic, layer |-> i]
  ELSE LET r == TradeStoreGetRecentAt(ts[i], st, limit, ts[i] \in down)
       IN  IF r.err = Nil /\ Len(r.trades) > 0 THEN [trades |-> r.trades, ret |-> Nil, layer |-> i]
           ELSE GetRecentThrough(ts, st, limit, down, i + 1)

\* trades, _ := e.tradeStore.GetRecent(limit); slices.Reverse(trades); return trades
GetRecentTrades(ts, st, limit, down) ==
  [GetRecentThrough(ts, st, limit, down, 1) EXCEPT !.trades = Reverse(@)]

\* ------------------------------------------------------------------- state
VARIABLES
  orderBook,    \* Engine.orderBook: [bids, asks], each price -> sequence of order ids
  orderStore,   \* Engine.orderStore: InMemoryOrderStore [orders, orderIDs, maxSize]
  tradeStore,   \* Engine.tradeStore: the trades saved, oldest first
  mem,          \* the Order objects, by id
  nextOrderID,  \* Engine.nextOrderID
  frames,       \* SpecConc: the call each caller is in
  round,        \* SpecConc: the engine when the concurrent calls began, and the calls
  submitted,    \* history: id -> the order as it was submitted
  last,         \* history: the last call that traded, what it returned and what it saw
  reader,       \* SpecRead: the GetTopOfBookHandler request in progress
  memoryTradeStore,  \* InMemoryTradeStore [trades, maxSize]
  fileTradeStore,    \* FileTradeStore: the file, the goroutines not yet run, open or closed
  savedTrades,  \* history: the trades handed to Save / SaveBatch, in call order
  stores,       \* CompositeOrderStore.stores: the layers, first to last
  storeCall,    \* history: the last store call, what each layer did and what it returned
  deployment,   \* main: the configuration, the constructors that failed, the stores built
  backends,     \* the data the Redis server and the PostgreSQL database hold
  storeLog      \* history: the calls made on the in-process order store, in order

engineVars == <<orderBook, orderStore, tradeStore, mem, nextOrderID, frames, round, submitted, last>>
layerVars == <<deployment, backends, storeLog>>
storeVars == <<memoryTradeStore, fileTradeStore, savedTrades, stores, storeCall, layerVars>>
vars == <<engineVars, reader, storeVars>>

Engine == [orderBook |-> orderBook, orderStore |-> orderStore, tradeStore |-> tradeStore, mem |-> mem]

SetEngine(e) ==
  /\ orderBook' = e.orderBook
  /\ orderStore' = e.orderStore
  /\ tradeStore' = e.tradeStore
  /\ mem' = e.mem

NoCall == [order |-> IdleFrame.incoming, trades |-> << >>, fills |-> << >>]

NoRound == [base |-> NewEngineWithConfig(0), calls |-> << >>, returns |-> << >>, done |-> FALSE]

AllIdle == \A t \in Threads : frames[t].pc = "idle"

\* No call made yet on the in-process order store.  insertedAt[id] is the number of
\* the call that last put id into the store, touchedAt[id] of the last call that read
\* or saved it; `before' are the ids held before the last call.
NoStoreLog ==
  [calls |-> 0, insertedAt |-> << >>, touchedAt |-> << >>, op |-> "none", id |-> 0, before |-> {}]

NoStoreCall ==
  [op |-> "none", id |-> 0, down |-> {}, errs |-> << >>, ret |-> Nil, found |-> FALSE,
   limit |-> 0, trades |-> << >>, saved |-> << >>]

\* The stores as buildStorageLayers / NewEngineWithConfig make them: the trade stores
\* [memory, file], the order stores [memory, redis].
InitStores(maxTrades, maxOrders) ==
  /\ memoryTradeStore = NewInMemoryTradeStore(maxTrades)
  /\ fileTradeStore = NewFileTradeStore
  /\ savedTrades = << >>
  /\ stores = <<MemoryLayer(maxOrders), RedisLayer>>
  /\ storeCall = NoStoreCall
  /\ deployment = buildStorageLayers(DefaultConfig, {})
  /\ backends = NewBackends
  /\ storeLog = NoStoreLog

\* The engine's part of the state after construction.
InitEngine(maxOrders) ==
  /\ orderBook = NewEngineWithConfig(maxOrders).orderBook
  /\ orderStore = NewEngineWithConfig(maxOrders).orderStore
  /\ tradeStore = NewEngineWithConfig(maxOrders).tradeStore
  /\ mem = NewEngineWithConfig(maxOrders).mem
  /\ nextOrderID = FirstOrderID
  /\ frames = [t \in Threads |-> IdleFrame]
  /\ round = NoRound
  /\ submitted = << >>
  /\ last = NoCall
  /\ reader = IdleReader

InitWith(maxOrders) == InitEngine(maxOrders) /\ InitStores(DefaultMaxTrades, DefaultMaxOrders)

\* NewEngine(): MaxOrders 100000
Init == InitWith(DefaultMaxOrders)

\* NewEngineWithConfig with a small MaxOrders
InitSmall == InitWith(SmallMaxOrders)

GenerateOrderIDNoAdd == nextOrderID

\* atomic.AddUint64(&e.nextOrderID, 1)
GenerateOrderID == nextOrderID + 1

\* The orders a caller submits, each under a fresh id: LIMIT and MARKET of either
\* side, a LIMIT and a MARKET of quantity 0, and the inert kinds.
Submissions(prices, sizes) ==
  {NewOrder(GenerateOrderID, LimitOrder, side, price, size) :
     side \in Sides, price \in prices, size \in sizes}
  \cup {NewOrder(GenerateOrderID, MarketOrder, side, 0, size) : side \in Sides, size \in sizes}
  \cup {NewOrder(GenerateOrderID, LimitOrder, Buy, 1, 0), NewOrder(GenerateOrderID, MarketOrder, Buy, 0, 0)}
  \cup {NewOrder(GenerateOrderID, t, Buy, 0, 1) :
          t \in {NoActionOrder, StopMarketOrder, StopLimitOrder}}

\* The history of a call that returned trades; a call that traded nothing leaves it.
CallRecord(r) ==
  IF Len(r.f.trades) > 0
  THEN [order |-> r.f.incoming, trades |-> r.f.trades, fills |-> r.f.fills]
  ELSE last

\* id := GenerateOrderID(); order := NewOrder(id, ...); PlaceOrder(order)
EnginePlaceOrder ==
  /\ AllIdle
  /\ nextOrderID < MaxOrderID
  /\ \E o \in Submissions(Prices, Sizes) :
       LET r == PlaceOrderOn(Engine, o)
       IN  /\ SetEngine(r.e)
           /\ nextOrderID' = GenerateOrderID
           /\ submitted' = MapPut(submitted, o.ID, o)
           /\ last' = CallRecord(r)
  /\ UNCHANGED <<frames, round>>
  /\ UNCHANGED <<reader, storeVars>>

\* PlaceOrder(NewOrder(id, CancelOrder, ...)): a cancel submitted as an order
EnginePlaceCancelOrder ==
  /\ AllIdle
  /\ \E id \in OrderIDs : SetEngine(PlaceOrderOn(Engine, NewOrder(id, CancelOrder, Buy, 0, 0)).e)
  /\ UNCHANGED <<nextOrderID, frames, round, submitted, last>>
  /\ UNCHANGED <<reader, storeVars>>

\* CancelOrder(orderId)
EngineCancelOrder ==
  /\ AllIdle
  /\ \E id \in OrderIDs : SetEngine(CancelOrderOn(Engine, id).e)
  /\ UNCHANGED <<nextOrderID, frames, round, submitted, last>>
  /\ UNCHANGED <<reader, storeVars>>

Next == EnginePlaceOrder \/ EnginePlaceCancelOrder \/ EngineCancelOrder

Spec == Init /\ [][Next]_vars

SpecSmall == InitSmall /\ [][Next]_vars

\* The engine as the HTTP handlers drive it.  SubmitOrderRequest.Validate admits
\* market and limit orders of quantity > 0 (limit price > 0) and convertOrderType
\* knows no other kind; cancels come through CancelOrderHandler.
ApiSubmissions ==
  {o \in Submissions(Prices, Sizes) : o.OrderType \in {MarketOrder, LimitOrder} /\ o.Size > 0}

\* Validate(); orderID := GenerateOrderID(); order := NewOrder(orderID, ...); PlaceOrder(order)
SubmitOrderHandler ==
  /\ AllIdle
  /\ nextOrderID < MaxOrderID
  /\ \E o \in ApiSubmissions :
       LET r == PlaceOrderOn(Engine, o)
       IN  /\ SetEngine(r.e)
           /\ nextOrderID' = GenerateOrderID
           /\ submitted' = MapPut(submitted, o.ID, o)
           /\ last' = CallRecord(r)
  /\ UNCHANGED <<frames, round>>
  /\ UNCHANGED <<reader, storeVars>>

\* orderID from the path; cancelled := CancelOrder(orderID)
CancelOrderHandler ==
  /\ AllIdle
  /\ \E id \in OrderIDs : SetEngine(CancelOrderOn(Engine, id).e)
  /\ UNCHANGED <<nextOrderID, frames, round, submitted, last>>
  /\ UNCHANGED <<reader, storeVars>>

NextApi == SubmitOrderHandler \/ CancelOrderHandler

SpecApi == Init /\ [][NextApi]_vars


\* ---------------------------------------------------------- concurrent callers
\* PlaceOrder and CancelOrder take no lock (the stores lock themselves, the engine and
\* the book do not), so the steps of two calls interleave.  After up to
\* ConcSetupOrders LIMIT orders have been placed, each caller makes one call; caller 1
\* is the one that calls first.
ConcPrices == {1}
ConcSizes == {1, 2}

ConcCalls == {NewOrder(GenerateOrderID, LimitOrder, side, price, size) :
                side \in Sides, price \in ConcPrices, size \in ConcSizes}
             \cup {NewOrder(GenerateOrderID, MarketOrder, side, 0, size) :
                     side \in Sides, size \in ConcSizes}

ConcSetup ==
  /\ AllIdle
  /\ round = NoRound
  /\ nextOrderID < FirstOrderID + ConcSetupOrders
  /\ \E o \in {c \in ConcCalls : c.OrderType = LimitOrder} :
       /\ SetEngine(PlaceOrderOn(Engine, o).e)
       /\ nextOrderID' = GenerateOrderID
       /\ submitted' = MapPut(submitted, o.ID, o)
  /\ UNCHANGED <<frames, round, last>>
  /\ UNCHANGED <<reader, storeVars>>

MayCall(t) ==
  /\ frames[t].pc = "idle"
  /\ ~round.done
  /\ \A c \in Range(round.calls) : c.caller # t
  /\ t = 1 \/ frames[1].pc # "idle"

BeginCall(t, kind, o) ==
  round' = [round EXCEPT !.base = IF round.calls = << >> THEN Engine ELSE @,
                         !.calls = Append(@, [caller |-> t, kind |-> kind, order |-> o])]

\* go func() { id := GenerateOrderID(); PlaceOrder(NewOrder(id, ...)) }()
ConcPlaceOrder(t) ==
  /\ MayCall(t)
  /\ \E o \in ConcCalls :
       /\ frames' = [frames EXCEPT ![t] = PlaceFrame(o)]
       /\ mem' = MapPut(mem, o.ID, o)
       /\ nextOrderID' = GenerateOrderID
       /\ submitted' = MapPut(submitted, o.ID, o)
       /\ BeginCall(t, "place", o)
  /\ UNCHANGED <<orderBook, orderStore, tradeStore, last>>
  /\ UNCHANGED <<reader, storeVars>>

\* go func() { CancelOrder(id) }()
ConcCancelOrder(t) ==
  /\ MayCall(t)
  /\ \E id \in (FirstOrderID + 1)..(FirstOrderID + ConcSetupOrders) :
       /\ frames' = [frames EXCEPT ![t] = CancelFrame(id)]
       /\ BeginCall(t, "cancel", CancelFrame(id).incoming)
  /\ UNCHANGED <<orderBook, orderStore, tradeStore, mem, nextOrderID, submitted, last>>
  /\ UNCHANGED <<reader, storeVars>>

\* The next step of caller t's call.
ConcStep(t) ==
  /\ frames[t].pc # "idle"
  /\ ~Returned(frames[t])
  /\ LET r == Step(Engine, frames[t])
     IN  /\ SetEngine(r.e)
         /\ frames' = [frames EXCEPT ![t] = r.f]
  /\ UNCHANGED <<nextOrderID, round, submitted, last>>
  /\ UNCHANGED <<reader, storeVars>>

\* Both calls have returned.
ConcDone ==
  /\ \A t \in Threads : Returned(frames[t])
  /\ round' = [round EXCEPT !.done = TRUE,
                            !.returns = [t \in Threads |-> [trades |-> frames[t].trades,
                                                            deleted |-> frames[t].deleted]]]
  /\ frames' = [t \in Threads |-> IdleFrame]
  /\ UNCHANGED <<orderBook, orderStore, tradeStore, mem, nextOrderID, submitted, last>>
  /\ UNCHANGED <<reader, storeVars>>

NextConc ==
  \/ ConcSetup
  \/ \E t \in Threads : ConcPlaceOrder(t)
  \/ \E t \in Threads : ConcCancelOrder(t)
  \/ \E t \in Threads : ConcStep(t)
  \/ ConcDone

SpecConc == Init /\ [][NextConc]_vars

\* ------------------------------------------------- a reader beside a writer
\* GetTopOfBookHandler takes no lock either.  After the setup orders one caller makes
\* one call, step by step, and one top-of-book request is served while that call
\* runs or after it.
\* The writer's call has returned.
WriterReturn ==
  /\ Returned(frames[1])
  /\ round' = [round EXCEPT !.done = TRUE]
  /\ frames' = [frames EXCEPT ![1] = IdleFrame]
  /\ UNCHANGED <<orderBook, orderStore, tradeStore, mem, nextOrderID, submitted, last>>
  /\ UNCHANGED <<reader, storeVars>>

\* GET /orderbook/top arrives.
ReaderBegin ==
  /\ reader.pc = "idle"
  /\ round.calls # << >>
  /\ reader' = [reader EXCEPT !.pc = "GetBestBid"]
  /\ UNCHANGED <<engineVars, storeVars>>

\* The next step of the request.
ReaderRead ==
  /\ reader.pc \notin {"idle", "response"}
  /\ reader' = ReaderStep(Engine, reader)
  /\ UNCHANGED <<engineVars, storeVars>>

NextRead ==
  \/ ConcSetup
  \/ ConcPlaceOrder(1)
  \/ ConcCancelOrder(1)
  \/ ConcStep(1)
  \/ WriterReturn
  \/ ReaderBegin
  \/ ReaderRead

SpecRead == Init /\ [][NextRead]_vars

\* ---------------------------------------------- handlers generating order ids
\* SubmitOrderHandler in two steps, as concurrent requests see it: the id is
\* generated, and later the order is placed.  PlaceOrder and CancelOrder are taken
\* whole here.
IdsOrders(id) ==
  {NewOrder(id, LimitOrder, side, price, size) :
     side \in Sides, price \in ConcPrices, size \in ConcSizes}
  \cup {NewOrder(id, MarketOrder, side, 0, size) : side \in Sides, size \in ConcSizes}

\* orderID := eh.Engine.GenerateOrderID()
IdsGenerate(t) ==
  /\ frames[t].pc = "idle"
  /\ nextOrderID < MaxOrderID
  /\ frames' = [frames EXCEPT ![t] = [IdleFrame EXCEPT !.pc = "generated", !.incoming.ID = GenerateOrderID]]
  /\ nextOrderID' = GenerateOrderID
  /\ UNCHANGED <<orderBook, orderStore, tradeStore, mem, round, submitted, last>>
  /\ UNCHANGED <<reader, storeVars>>

\* order := NewOrder(orderID, ...); trades := eh.Engine.PlaceOrder(order)
IdsPlace(t) ==
  /\ frames[t].pc = "generated"
  /\ \E o \in IdsOrders(frames[t].incoming.ID) :
       /\ SetEngine(PlaceOrderOn(Engine, o).e)
       /\ submitted' = MapPut(submitted, o.ID, o)
  /\ frames' = [frames EXCEPT ![t] = IdleFrame]
  /\ UNCHANGED <<nextOrderID, round, last>>
  /\ UNCHANGED <<reader, storeVars>>

\* cancelled := eh.Engine.CancelOrder(orderID)
IdsCancel ==
  /\ \E id \in OrderIDs : SetEngine(CancelOrderOn(Engine, id).e)
  /\ UNCHANGED <<nextOrderID, frames, round, submitted, last>>
  /\ UNCHANGED <<reader, storeVars>>

NextIds ==
  \/ \E t \in Threads : IdsGenerate(t)
  \/ \E t \in Threads : IdsPlace(t)
  \/ IdsCancel

SpecIds == Init /\ [][NextIds]_vars

\* ------------------------------------------------------------ the trade stores
\* The trade store of NewEngineWithConfig, CompositeTradeStore [memory, file], with a
\* small MaxTrades.  The k-th trade saved is TradeNo(k).  Engine.Close is the last
\* call made on the store; the goroutines of the file store run when they run.
InitTrades ==
  /\ InitEngine(DefaultMaxOrders)
  /\ \E maxTrades \in 0..MaxStoreSize : InitStores(maxTrades, DefaultMaxOrders)

\* tradeStore.Save(trade)
TradeStoreSave ==
  /\ ~fileTradeStore.closed
  /\ Len(savedTrades) < MaxSavedTrades
  /\ LET trade == TradeNo(Len(savedTrades) + 1)
         r == CompositeTradeStoreSave(memoryTradeStore, fileTradeStore, trade)
     IN  /\ memoryTradeStore' = r.memory
         /\ fileTradeStore' = r.file
         /\ savedTrades' = Append(savedTrades, trade)
  /\ storeCall' = [NoStoreCall EXCEPT !.op = "Save"]
  /\ UNCHANGED <<engineVars, reader, layerVars, stores>>

\* tradeStore.SaveBatch(trades), two trades
TradeStoreSaveBatch ==
  /\ ~fileTradeStore.closed
  /\ Len(savedTrades) + 2 <= MaxSavedTrades
  /\ LET trades == <<TradeNo(Len(savedTrades) + 1), TradeNo(Len(savedTrades) + 2)>>
         r == CompositeTradeStoreSaveBatch(memoryTradeStore, fileTradeStore, trades)
     IN  /\ memoryTradeStore' = r.memory
         /\ fileTradeStore' = r.file
         /\ savedTrades' = savedTrades \o trades
  /\ storeCall' = [NoStoreCall EXCEPT !.op = "SaveBatch"]
  /\ UNCHANGED <<engineVars, reader, layerVars, stores>>

\* tradeStore.GetRecent(limit), with the limits GetTradesHandler passes (limit > 0);
\* what each store answers is kept for the properties.
TradeStoreGetRecent ==
  /\ ~fileTradeStore.closed
  /\ \E limit \in 1..MaxSavedTrades :
       storeCall' = [NoStoreCall EXCEPT
                       !.op = "GetRecent", !.limit = limit,
                       !.trades = [memory |-> InMemoryTradeStoreGetRecent(memoryTradeStore, limit),
                                   file |-> FileTradeStoreGetRecent(fileTradeStore, limit),
                                   composite |-> CompositeTradeStoreGetRecent(memoryTradeStore,
                                                                              fileTradeStore, limit)]]
  /\ UNCHANGED <<engineVars, reader, layerVars, memoryTradeStore, fileTradeStore, savedTrades, stores>>

\* tradeStore.Close(): every store's Close
TradeStoreClose ==
  /\ ~fileTradeStore.closed
  /\ fileTradeStore' = FileTradeStoreClose(fileTradeStore)
  /\ storeCall' = [NoStoreCall EXCEPT !.op = "Close", !.saved = savedTrades]
  /\ UNCHANGED <<engineVars, reader, layerVars, memoryTradeStore, savedTrades, stores>>

\* A goroutine of FileTradeStore.Save / SaveBatch encodes its next trade.
FileGoroutine ==
  /\ \E g \in fileTradeStore.goroutines :
       /\ MayRun(fileTradeStore, g)
       /\ fileTradeStore' = GoroutineEncode(fileTradeStore, g)
  /\ UNCHANGED <<engineVars, reader, layerVars, memoryTradeStore, savedTrades, stores, storeCall>>

NextTrades ==
  \/ TradeStoreSave
  \/ TradeStoreSaveBatch
  \/ TradeStoreGetRecent
  \/ TradeStoreClose
  \/ FileGoroutine

SpecTrades == InitTrades /\ [][NextTrades]_vars

\* ------------------------------------------------------------ the order stores
\* CompositeOrderStore over [memory, redis] as buildStorageLayers stacks them, the
\* in-process layer with a small MaxOrders.  Each call names an order id; `down' are
\* the layers whose remote call fails during it (only the Redis layer is remote).
StoredOrderIDs == 1..MaxStoredOrderID
RemoteLayers == {2}

InitOrders ==
  /\ InitEngine(DefaultMaxOrders)
  /\ \E maxOrders \in 1..MaxStoreSize : InitStores(DefaultMaxTrades, maxOrders)

\* The history of a write: what each layer returned and what the composite returned.
WriteRecord(op, r, id, down) ==
  [NoStoreCall EXCEPT !.op = op, !.id = id, !.down = down, !.errs = r.errs, !.ret = r.ret]

\* orderStore.Save(order)
OrderStoreSave ==
  /\ \E id \in StoredOrderIDs, down \in SUBSET RemoteLayers :
       LET r == CompositeOrderStoreSave(stores, id, down)
       IN  stores' = r.stores /\ storeCall' = WriteRecord("Save", r, id, down)
  /\ UNCHANGED <<engineVars, reader, layerVars, memoryTradeStore, fileTradeStore, savedTrades>>

\* orderStore.Remove(orderID)
OrderStoreRemove ==
  /\ \E id \in StoredOrderIDs, down \in SUBSET RemoteLayers :
       LET r == CompositeOrderStoreRemove(stores, id, down)
       IN  stores' = r.stores /\ storeCall' = WriteRecord("Remove", r, id, down)
  /\ UNCHANGED <<engineVars, reader, layerVars, memoryTradeStore, fileTradeStore, savedTrades>>

\* orderStore.Update(order)
OrderStoreUpdate ==
  /\ \E id \in StoredOrderIDs, down \in SUBSET RemoteLayers :
       LET r == CompositeOrderStoreUpdate(stores, id, down)
       IN  stores' = r.stores /\ storeCall' = WriteRecord("Update", r, id, down)
  /\ UNCHANGED <<engineVars, reader, layerVars, memoryTradeStore, fileTradeStore, savedTrades>>

\* orderStore.Get(orderID)
OrderStoreGet ==
  /\ \E id \in StoredOrderIDs, down \in SUBSET RemoteLayers :
       LET r == CompositeOrderStoreGet(stores, id, down)
       IN  storeCall' = [NoStoreCall EXCEPT !.op = "Get", !.id = id, !.down = down,
                                           !.found = r.found, !.ret = r.err]
  /\ UNCHANGED <<engineVars, reader, layerVars, memoryTradeStore, fileTradeStore, savedTrades, stores>>

NextOrders ==
  \/ OrderStoreSave
  \/ OrderStoreRemove
  \/ OrderStoreUpdate
  \/ OrderStoreGet

SpecOrders == InitOrders /\ [][NextOrders]_vars

\* ------------------------------------------------- the in-process order store
\* InMemoryOrderStore alone, with the capacities the constructors pass: a small
\* MaxOrders, and 0 when EngineConfig.MaxOrders is left unset (NewTestServer).
MemoryOrderIDs == 1..MaxMemoryOrderID

InitMemory ==
  /\ \E maxOrders \in 0..MaxStoreSize : InitEngine(maxOrders)
  /\ InitStores(DefaultMaxTrades, DefaultMaxOrders)

\* The history after call `op' on id.
LogCall(op, id) ==
  [calls |-> storeLog.calls + 1,
   insertedAt |-> IF op = "Save" /\ id \notin orderStore.orders
                  THEN MapPut(storeLog.insertedAt, id, storeLog.calls + 1)
                  ELSE storeLog.insertedAt,
   touchedAt |-> IF op \in {"Save", "Get"}
                 THEN MapPut(storeLog.touchedAt, id, storeLog.calls + 1)
                 ELSE storeLog.touchedAt,
   op |-> op, id |-> id, before |-> orderStore.orders]

\* orderStore.Save(order)
MemorySave ==
  /\ storeLog.calls < MaxStoreCalls
  /\ \E id \in MemoryOrderIDs :
       /\ orderStore' = Save(orderStore, id)
       /\ storeLog' = LogCall("Save", id)
  /\ UNCHANGED <<orderBook, tradeStore, mem, nextOrderID, frames, round, submitted, last>>
  /\ UNCHANGED <<reader, memoryTradeStore, fileTradeStore, savedTrades, stores, storeCall>>
  /\ UNCHANGED <<deployment, backends>>

\* orderStore.Get(orderID): reads under the read lock, changes nothing
MemoryGet ==
  /\ storeLog.calls < MaxStoreCalls
  /\ \E id \in MemoryOrderIDs :
       /\ Get(orderStore, id).found
       /\ storeLog' = LogCall("Get", id)
  /\ UNCHANGED <<engineVars, reader>>
  /\ UNCHANGED <<memoryTradeStore, fileTradeStore, savedTrades, stores, storeCall, deployment, backends>>

\* orderStore.Remove(orderID)
MemoryRemove ==
  /\ storeLog.calls < MaxStoreCalls
  /\ \E id \in MemoryOrderIDs :
       /\ orderStore' = Remove(orderStore, id)
       /\ storeLog' = LogCall("Remove", id)
  /\ UNCHANGED <<orderBook, tradeStore, mem, nextOrderID, frames, round, submitted, last>>
  /\ UNCHANGED <<reader, memoryTradeStore, fileTradeStore, savedTrades, stores, storeCall>>
  /\ UNCHANGED <<deployment, backends>>

NextMemory == MemorySave \/ MemoryGet \/ MemoryRemove

SpecMemory == InitMemory /\ [][NextMemory]_vars

\* ------------------------------------------- the engine over storage layers
\* The server of main with REDIS_ENABLED: the handlers place and cancel orders, one
\* request at a time, and during each call the Redis calls made at the program points
\* `down' fail.
LayeredConfig == [Memory |-> TRUE, Redis |-> TRUE, Database |-> FALSE]

\* The failures of one call: none, the Redis calls of one program point, or all.
FailurePatterns == {{}, StorePoints} \cup {{p} : p \in StorePoints}

InitLayers ==
  /\ InitEngine(DefaultMaxOrders)
  /\ memoryTradeStore = NewInMemoryTradeStore(DefaultMaxTrades)
  /\ fileTradeStore = NewFileTradeStore
  /\ savedTrades = << >>
  /\ stores = <<MemoryLayer(DefaultMaxOrders), RedisLayer>>
  /\ storeCall = NoStoreCall
  /\ deployment = buildStorageLayers(LayeredConfig, {})
  /\ backends = NewBackends
  /\ storeLog = NoStoreLog

\* SubmitOrderHandler: orderID := GenerateOrderID(); PlaceOrder(order)
LayeredPlaceOrder ==
  /\ AllIdle
  /\ nextOrderID < MaxLayeredOrderID
  /\ \E o \in IdsOrders(GenerateOrderID), down \in FailurePatterns :
       LET r == LayeredPlaceOrderOn(Engine, backends, o, down)
       IN  /\ SetEngine(r.e)
           /\ backends' = r.b
           /\ nextOrderID' = GenerateOrderID
           /\ submitted' = MapPut(submitted, o.ID, o)
           /\ last' = CallRecord(r)
  /\ UNCHANGED <<frames, round, reader>>
  /\ UNCHANGED <<memoryTradeStore, fileTradeStore, savedTrades, stores, storeCall, deployment, storeLog>>

\* CancelOrderHandler: cancelled := CancelOrder(orderID)
LayeredCancelOrder ==
  /\ AllIdle
  /\ \E id \in (FirstOrderID + 1)..MaxLayeredOrderID, down \in FailurePatterns :
       LET r == LayeredCancelOrderOn(Engine, backends, id, down)
       IN  /\ SetEngine(r.e)
           /\ backends' = r.b
  /\ UNCHANGED <<nextOrderID, frames, round, submitted, last, reader>>
  /\ UNCHANGED <<memoryTradeStore, fileTradeStore, savedTrades, stores, storeCall, deployment, storeLog>>

NextLayers == LayeredPlaceOrder \/ LayeredCancelOrder

SpecLayers == InitLayers /\ [][NextLayers]_vars

\* ------------------------------------------------- the server as deployed
\* main with any configuration and any constructors failing: the stores
\* buildStorageLayers returns, then the trade store as the engine uses it.  `down' are
\* the remote stores whose call fails.
RemoteStores == {"redis", "postgres"}

TradeStores == [memory |-> memoryTradeStore, file |-> fileTradeStore, b |-> backends]

InitDeploy ==
  /\ InitEngine(DefaultMaxOrders)
  /\ memoryTradeStore = NewInMemoryTradeStore(DefaultMaxTrades)
  /\ fileTradeStore = NewFileTradeStore
  /\ savedTrades = << >>
  /\ stores = <<MemoryLayer(DefaultMaxOrders), RedisLayer>>
  /\ storeCall = NoStoreCall
  /\ \E cfg \in Configs, failed \in SUBSET Constructors : deployment = buildStorageLayers(cfg, failed)
  /\ backends = NewBackends
  /\ storeLog = NoStoreLog

\* AddTradeToHistory(trade): _ = e.tradeStore.Save(trade)
DeployedAddTradeToHistory ==
  /\ Len(savedTrades) < MaxSavedTrades
  /\ \E down \in SUBSET RemoteStores :
       LET trade == TradeNo(Len(savedTrades) + 1)
           r == SaveThrough(deployment.tradeStores, TradeStores, trade, down, 1)
       IN  /\ memoryTradeStore' = r.st.memory
           /\ fileTradeStore' = r.st.file
           /\ backends' = r.st.b
           /\ savedTrades' = Append(savedTrades, trade)
           /\ storeCall' = [NoStoreCall EXCEPT !.op = "Save", !.ret = r.ret]
  /\ UNCHANGED <<engineVars, reader, stores, deployment, storeLog>>

\* GetTradesHandler: trades := Engine.GetRecentTrades(limit), limit > 0
DeployedGetRecentTrades ==
  /\ \E limit \in 1..MaxSavedTrades, down \in SUBSET RemoteStores :
       LET r == GetRecentTrades(deployment.tradeStores, TradeStores, limit, down)
       IN  storeCall' = [NoStoreCall EXCEPT !.op = "GetRecentTrades", !.limit = limit,
                                           !.id = r.layer, !.trades = r.trades, !.ret = r.ret]
  /\ UNCHANGED <<engineVars, reader, stores, deployment, storeLog>>
  /\ UNCHANGED <<memoryTradeStore, fileTradeStore, savedTrades, backends>>

NextDeploy == DeployedAddTradeToHistory \/ DeployedGetRecentTrades

SpecDeploy == InitDeploy /\ [][NextDeploy]_vars

\* ------------------------------------------------- the engine at any price
\* PlaceOrder as the library offers it: it does not call Order.IsValid, so a LIMIT
\* order rests at whatever price it carries, negative and zero included.
AnyPrices == {-1, 0, 1}

PricedOrders ==
  {NewOrder(GenerateOrderID, LimitOrder, side, price, 1) : side \in Sides, price \in AnyPrices}
  \cup {NewOrder(GenerateOrderID, MarketOrder, side, 0, 1) : side \in Sides}

\* PlaceOrder(NewOrder(id, userId, orderType, side, price, 1))
PricedPlaceOrder ==
  /\ AllIdle
  /\ nextOrderID < MaxPricedOrderID
  /\ \E o \in PricedOrders :
       LET r == PlaceOrderOn(Engine, o)
       IN  /\ SetEngine(r.e)
           /\ nextOrderID' = GenerateOrderID
           /\ submitted' = MapPut(submitted, o.ID, o)
           /\ last' = CallRecord(r)
  /\ UNCHANGED <<frames, round>>
  /\ UNCHANGED <<reader, storeVars>>

\* CancelOrder(orderId)
PricedCancelOrder ==
  /\ AllIdle
  /\ \E id \in (FirstOrderID + 1)..MaxPricedOrderID : SetEngine(CancelOrderOn(Engine, id).e)
  /\ UNCHANGED <<nextOrderID, frames, round, submitted, last>>
  /\ UNCHANGED <<reader, storeVars>>

NextPrices == PricedPlaceOrder \/ PricedCancelOrder

SpecPrices == Init /\ [][NextPrices]_vars

\* ------------------------------------------------------- views of the state
\* The positions <<price, index>> of a book side, and the order ids resting on it.
Positions(bookSide) == UNION {{<<p, i>> : i \in DOMAIN bookSide[p]} : p \in DOMAIN bookSide}
SideIDs(bookSide) == {bookSide[pi[1]][pi[2]] : pi \in Positions(bookSide)}
BookIDs(ob) == SideIDs(ob.bids) \cup SideIDs(ob.asks)
\* The prices at which at least one order rests.
SidePrices(bookSide) == {pi[1] : pi \in Positions(bookSide)}

RECURSIVE SumSizes(_)
SumSizes(ts) == IF ts = << >> THEN 0 ELSE Head(ts).Size + SumSizes(Tail(ts))
TradesOf(id) == SelectSeq(tradeStore, LAMBDA t : t.BuyOrderID = id \/ t.SellOrderID = id)

\* With a single caller the order that came second is the incoming one of a trade.
Incoming(t) == IF t.BuyOrderID > t.SellOrderID THEN t.BuyOrderID ELSE t.SellOrderID
Resting(t) == IF t.BuyOrderID > t.SellOrderID THEN t.SellOrderID ELSE t.BuyOrderID

\* ------------------------------------------------------------------ claims

\* C1: after every PlaceOrder / CancelOrder has returned, whenever both sides of the
\* book hold orders the best bid price is strictly below the best ask price.
C1_BookNotCrossed ==
  AllIdle =>
    (SidePrices(orderBook.bids) # {} /\ SidePrices(orderBook.asks) # {}
       => SetMax(SidePrices(orderBook.bids)) < SetMin(SidePrices(orderBook.asks)))

\* C1 witness: a crossing order has traded and both sides of the book hold orders.
C1_Witness ==
  /\ AllIdle
  /\ Len(tradeStore) > 0
  /\ SidePrices(orderBook.bids) # {} /\ SidePrices(orderBook.asks) # {}

\* C2 (as claimed): PlaceOrder and CancelOrder calls exclude each other: when two
\* concurrent calls have returned, the book, the residuals of the resting orders, the
\* order index, the trade stream and what each call returned are those of the two
\* calls run one after the other, in one of the two orders.
ApplyCall(e, c) ==
  IF c.kind = "place" THEN PlaceOrderOn(e, c.order) ELSE CancelOrderOn(e, c.order.ID)

SerialOutcome(first, second) ==
  LET r1 == ApplyCall(round.base, first)
      r2 == ApplyCall(r1.e, second)
  IN  [e |-> r2.e,
       returns |-> (first.caller :> [trades |-> r1.f.trades, deleted |-> r1.f.deleted])
                   @@ (second.caller :> [trades |-> r2.f.trades, deleted |-> r2.f.deleted])]

IsOutcome(out) ==
  /\ out.e.orderBook = orderBook
  /\ \A id \in BookIDs(orderBook) : out.e.mem[id].Size = mem[id].Size
  /\ out.e.orderStore.orders = orderStore.orders
  /\ out.e.tradeStore = tradeStore
  /\ out.returns = round.returns

C2_Serializable ==
  round.done =>
    \/ IsOutcome(SerialOutcome(round.calls[1], round.calls[2]))
    \/ IsOutcome(SerialOutcome(round.calls[2], round.calls[1]))

\* C3 (as claimed): under any sequence or interleaving of calls, the sizes of the
\* trades that reference an order never sum to more than its submitted size, no
\* residual is negative, and the trades never sum to more than the submitted sizes.
RECURSIVE SumSubmitted(_)
SumSubmitted(ids) ==
  IF ids = {} THEN 0
  ELSE LET id == CHOOSE id \in ids : TRUE
       IN  submitted[id].Size + SumSubmitted(ids \ {id})

C3_NoOverfill ==
  /\ \A id \in DOMAIN submitted :
       /\ SumSizes(TradesOf(id)) <= submitted[id].Size
       /\ mem[id].Size >= 0
  /\ SumSizes(tradeStore) <= SumSubmitted(DOMAIN submitted)

\* C4: every fill of a MARKET or LIMIT order is taken from the best-priced opposite
\* level of the book as it was at that fill: no opposite order with a strictly
\* better price was resting then.
C4_PricePriority ==
  \A k \in DOMAIN last.fills :
    LET fill == last.fills[k]
        p == fill.mem[fill.resting].Price
    IN  IF last.order.Side = Buy
        THEN \A q \in SidePrices(fill.orderBook.asks) : q >= p
        ELSE \A q \in SidePrices(fill.orderBook.bids) : q <= p

\* C4 witness: a fill happened while two opposite price levels were resting.
C4_Witness ==
  \E k \in DOMAIN last.fills :
    /\ Cardinality(SidePrices(last.fills[k].orderBook.asks)) >= 2
       \/ Cardinality(SidePrices(last.fills[k].orderBook.bids)) >= 2
    /\ last.trades[k].Size > 0

\* C5: within a price level fills go in insertion order (ids are handed out in call
\* order and an order enters its level in its own call, so the order inserted earlier
\* has the smaller id): at a fill no order of the same side and price that was
\* inserted earlier is still in the book, and the filled order heads its level.
C5_TimePriority ==
  \A k \in DOMAIN last.fills :
    LET fill == last.fills[k]
        bookSide == IF last.order.Side = Buy THEN fill.orderBook.asks ELSE fill.orderBook.bids
        p == fill.mem[fill.resting].Price
    IN  /\ p \in DOMAIN bookSide
        /\ bookSide[p][1] = fill.resting
        /\ \A i \in DOMAIN bookSide[p] : bookSide[p][i] >= fill.resting

\* C5 witness: SELL limits A then B at one price, a MARKET BUY of A's size: one trade,
\* against A, and B rests with its submitted size.
C5_Witness ==
  /\ Len(last.fills) = 1
  /\ \E a, b \in SideIDs(last.fills[1].orderBook.asks) :
    /\ a < b
    /\ submitted[a].Price = submitted[b].Price
    /\ last.order.OrderType = MarketOrder /\ last.order.Side = Buy
    /\ submitted[last.order.ID].Size = submitted[a].Size
    /\ last.trades = <<[BuyOrderID |-> last.order.ID, SellOrderID |-> a,
                        Price |-> submitted[a].Price, Size |-> submitted[a].Size]>>
    /\ b \in SideIDs(orderBook.asks) /\ mem[b].Size = submitted[b].Size
    /\ a \notin BookIDs(orderBook)

\* C6: every trade executes at the resting order's price, not the incoming order's.
C6_RestingPrice ==
  /\ \A i \in DOMAIN tradeStore : tradeStore[i].Price = submitted[Resting(tradeStore[i])].Price
  /\ \A k \in DOMAIN last.trades :
       last.trades[k].Price = last.fills[k].mem[last.fills[k].resting].Price

\* C6 witness: a LIMIT BUY at p traded with a resting SELL at q < p, at q.
C6_Witness ==
  \E i \in DOMAIN tradeStore :
    LET t == tradeStore[i] IN
    /\ Incoming(t) = t.BuyOrderID
    /\ submitted[t.BuyOrderID].OrderType = LimitOrder
    /\ submitted[t.SellOrderID].Price < submitted[t.BuyOrderID].Price
    /\ t.Price = submitted[t.SellOrderID].Price

\* C7: a LIMIT order trades only while it crosses: every trade of an incoming LIMIT
\* BUY at p has price <= p, of an incoming LIMIT SELL at p has price >= p, and every
\* fill came from an opposite best level that crossed p.
C7_LimitCrosses ==
  /\ \A i \in DOMAIN tradeStore :
       LET t == tradeStore[i]
           o == submitted[Incoming(t)]
       IN  o.OrderType = LimitOrder =>
             IF o.Side = Buy THEN t.Price <= o.Price ELSE t.Price >= o.Price
  /\ last.order.OrderType = LimitOrder =>
       \A k \in DOMAIN last.fills :
         LET best == getBestPrice(last.fills[k].orderBook, last.order.Side)
         IN  IF last.order.Side = Buy THEN best.price <= last.order.Price
             ELSE best.price >= last.order.Price

\* C7 witness: a LIMIT BUY traded at the level it crossed and stopped at the next
\* level, which it did not cross: it rests below the remaining ask.
C7_Witness ==
  /\ last.order.OrderType = LimitOrder /\ last.order.Side = Buy
  /\ Len(last.trades) > 0
  /\ last.order.ID \in SideIDs(orderBook.bids)
  /\ \E q \in SidePrices(orderBook.asks) : q > last.order.Price

\* C8: after every PlaceOrder / CancelOrder every resting order has a residual > 0 and
\* is at exactly one position of the book, in the level keyed by its limit price, on
\* the side of its own side.
C8_RestingOnce ==
  AllIdle =>
    /\ \A pi \in Positions(orderBook.bids) :
         LET o == mem[orderBook.bids[pi[1]][pi[2]]]
         IN  o.Size > 0 /\ o.Price = pi[1] /\ o.Side = Buy
    /\ \A pi \in Positions(orderBook.asks) :
         LET o == mem[orderBook.asks[pi[1]][pi[2]]]
         IN  o.Size > 0 /\ o.Price = pi[1] /\ o.Side = Sell
    /\ \A pi, qj \in Positions(orderBook.bids) :
         orderBook.bids[pi[1]][pi[2]] = orderBook.bids[qj[1]][qj[2]] => pi = qj
    /\ \A pi, qj \in Positions(orderBook.asks) :
         orderBook.asks[pi[1]][pi[2]] = orderBook.asks[qj[1]][qj[2]] => pi = qj
    /\ SideIDs(orderBook.bids) \cap SideIDs(orderBook.asks) = {}

\* C8 witness: an order rests with a residual smaller than its submitted size, beside
\* another order of its level.
C8_Witness ==
  /\ AllIdle
  /\ \E id \in BookIDs(orderBook) : mem[id].Size < submitted[id].Size
  /\ \E pi \in Positions(orderBook.bids) \cup Positions(orderBook.asks) : pi[2] = 2

\* C9 (as claimed): after every PlaceOrder / CancelOrder every order resting in the
\* book is in the order index, whatever the configured capacity.
C9_RestingIndexed ==
  AllIdle => BookIDs(orderBook) \subseteq orderStore.orders

\* C10 (as claimed): after every PlaceOrder / CancelOrder the ids in the order index
\* are exactly the ids resting in the book.
C10_IndexIsResting ==
  AllIdle => orderStore.orders = BookIDs(orderBook)

\* C11: after every PlaceOrder / CancelOrder every price level present on either side
\* of the book holds at least one order: the level whose last order was filled or
\* cancelled is gone.
C11_NoEmptyLevel ==
  AllIdle =>
    /\ \A p \in DOMAIN orderBook.bids : Len(orderBook.bids[p]) > 0
    /\ \A p \in DOMAIN orderBook.asks : Len(orderBook.asks[p]) > 0

\* C11 witness: a resting order was filled whole, was the last of its level, and its
\* level is gone while other orders still rest.
C11_Witness ==
  /\ AllIdle
  /\ \E i \in DOMAIN tradeStore :
       LET r == Resting(tradeStore[i])
           bookSide == IF submitted[r].Side = Buy THEN orderBook.bids ELSE orderBook.asks
       IN  /\ mem[r].Size = 0
           /\ submitted[r].Price \notin DOMAIN bookSide
  /\ BookIDs(orderBook) # {}

\* The calls of EnginePlaceOrder by kind, and the residual resting on the side
\* opposite to an incoming order.
MarketSubmissions == {o \in Submissions(Prices, Sizes) : o.OrderType = MarketOrder}
LimitSubmissions == {o \in Submissions(Prices, Sizes) : o.OrderType = LimitOrder}
InertSubmissions == Submissions(Prices, Sizes) \ (MarketSubmissions \cup LimitSubmissions)

RECURSIVE SumResidual(_, _)
SumResidual(e, ids) ==
  IF ids = {} THEN 0
  ELSE LET id == CHOOSE id \in ids : TRUE
       IN  e.mem[id].Size + SumResidual(e, ids \ {id})

OppositeResidual(e, side) ==
  SumResidual(e, SideIDs(IF side = Buy THEN e.orderBook.asks ELSE e.orderBook.bids))

Min(a, b) == IF a < b THEN a ELSE b

\* C12: a MARKET order of size n placed on any book a caller can reach returns fills
\* whose sizes sum to min(n, the residual resting on the opposite side), and the
\* order is not in the book afterwards.
C12_MarketFills ==
  AllIdle /\ nextOrderID < MaxOrderID =>
    \A o \in MarketSubmissions :
      LET r == PlaceOrderOn(Engine, o)
      IN  /\ SumSizes(r.f.trades) = Min(o.Size, OppositeResidual(Engine, o.Side))
          /\ o.ID \notin BookIDs(r.e.orderBook)

\* C12 witness: a MARKET order has traded less than its size (the opposite side ran
\* out), the remainder is nowhere: the order is not in the book and the side it
\* traded against is empty.
C12_Witness ==
  /\ AllIdle
  /\ \E id \in DOMAIN submitted :
       /\ submitted[id].OrderType = MarketOrder
       /\ SumSizes(TradesOf(id)) > 0
       /\ SumSizes(TradesOf(id)) < submitted[id].Size
       /\ id \notin BookIDs(orderBook)
       /\ id = nextOrderID
       /\ (IF submitted[id].Side = Buy THEN orderBook.asks ELSE orderBook.bids) = << >>

OwnSide(ob, side) == IF side = Buy THEN ob.bids ELSE ob.asks
OtherSide(ob, side) == IF side = Buy THEN ob.asks ELSE ob.bids

\* C13: a LIMIT order whose fills sum to less than its size rests afterwards with
\* residual = submitted size - sum of its fills, at its limit price, on its own side
\* only, behind every order that was at that price before the call.
C13_PartialRest ==
  AllIdle /\ nextOrderID < MaxOrderID =>
    \A o \in LimitSubmissions :
      LET r == PlaceOrderOn(Engine, o)
          filled == SumSizes(r.f.trades)
          own == OwnSide(r.e.orderBook, o.Side)
      IN  filled < o.Size =>
            /\ r.e.mem[o.ID].Size = o.Size - filled
            /\ r.e.mem[o.ID].Price = o.Price
            /\ o.Price \in DOMAIN own
            /\ own[o.Price] = Append(MapGet(OwnSide(Engine.orderBook, o.Side), o.Price), o.ID)
            /\ \A p \in DOMAIN own \ {o.Price} : o.ID \notin Range(own[p])
            /\ o.ID \notin SideIDs(OtherSide(r.e.orderBook, o.Side))

\* C13 witness: the LIMIT order placed last has traded part of its size and rests with
\* the rest of it at its limit price.
C13_Witness ==
  /\ AllIdle
  /\ nextOrderID \in DOMAIN submitted
  /\ LET o == submitted[nextOrderID]
         own == OwnSide(orderBook, o.Side)
     IN  /\ o.OrderType = LimitOrder
         /\ SumSizes(TradesOf(o.ID)) > 0
         /\ SumSizes(TradesOf(o.ID)) < o.Size
         /\ o.Price \in DOMAIN own
         /\ o.ID \in Range(own[o.Price])
         /\ mem[o.ID].Size = o.Size - SumSizes(TradesOf(o.ID))

\* C14: CancelOrder(id) of a resting order returns true, afterwards the order is in
\* neither the book nor the order index, and a second CancelOrder(id) returns false.
C14_CancelResting ==
  AllIdle =>
    \A id \in OrderIDs \cap BookIDs(orderBook) :
      LET r == CancelOrderOn(Engine, id)
          again == CancelOrderOn(r.e, id)
      IN  /\ r.f.deleted
          /\ id \notin BookIDs(r.e.orderBook)
          /\ id \notin r.e.orderStore.orders
          /\ ~again.f.deleted

\* C14 witness: a LIMIT order of positive size that never traded is in neither the
\* book nor the index (it was cancelled), and cancelling it again returns false.
C14_Witness ==
  /\ AllIdle
  /\ \E id \in DOMAIN submitted :
       /\ submitted[id].OrderType = LimitOrder
       /\ submitted[id].Size > 0
       /\ TradesOf(id) = << >>
       /\ id \notin BookIDs(orderBook)
       /\ id \notin orderStore.orders
       /\ ~CancelOrderOn(Engine, id).f.deleted

\* C15 (as claimed): CancelOrder(id) returns false exactly when id is not in the order
\* index at the call; when id is in the index the call returns true and the order
\* is afterwards in neither the book nor the index.
C15_CancelByIndex ==
  AllIdle =>
    \A id \in OrderIDs :
      LET r == CancelOrderOn(Engine, id)
      IN  /\ r.f.deleted <=> id \in orderStore.orders
          /\ id \in orderStore.orders =>
               /\ id \notin BookIDs(r.e.orderBook)
               /\ id \notin r.e.orderStore.orders

\* The residuals of the orders resting in book ob of engine e.
Residuals(e) == [id \in BookIDs(e.orderBook) |-> e.mem[id].Size]

\* C16: a LIMIT order that does not cross (PlaceOrder returns no trade), placed and
\* then cancelled, leaves the book as it was before the placement: the same levels,
\* the same ids in the same order, the same residuals.
C16_PlaceCancelRestores ==
  AllIdle /\ nextOrderID < MaxOrderID =>
    \A o \in LimitSubmissions :
      LET r == PlaceOrderOn(Engine, o)
          c == CancelOrderOn(r.e, o.ID)
      IN  r.f.trades = << >> =>
            /\ c.e.orderBook = orderBook
            /\ Residuals(c.e) = Residuals(Engine)

\* C16 witness: the LIMIT order placed last never traded and is gone from a level in
\* which the orders that were there before it still rest.
C16_Witness ==
  /\ AllIdle
  /\ nextOrderID \in DOMAIN submitted
  /\ LET o == submitted[nextOrderID]
     IN  /\ o.OrderType = LimitOrder /\ o.Size > 0
         /\ TradesOf(o.ID) = << >>
         /\ o.ID \notin BookIDs(orderBook)
         /\ o.Price \in DOMAIN OwnSide(orderBook, o.Side)

\* A book side without order id: the id dropped from its level, the level dropped
\* if nothing is left in it.
WithoutOrder(bookSide, id) ==
  LET left == [p \in DOMAIN bookSide |-> SelectSeq(bookSide[p], LAMBDA x : x # id)]
  IN  [p \in {q \in DOMAIN bookSide : left[q] # << >>} |-> left[p]]

\* C17: CancelOrder(id) changes nothing but the cancelled order.  When it returns
\* false (the id is not in the book) the engine is as before; when it returns true
\* the book is the book without that id (every other order on its side, in its
\* level, in the same order), every residual is as before, the trade stream is as
\* before, and the index lost that id only.
C17_CancelFrame ==
  AllIdle =>
    \A id \in OrderIDs :
      LET r == CancelOrderOn(Engine, id)
      IN  /\ id \notin BookIDs(orderBook) => ~r.f.deleted
          /\ ~r.f.deleted => r.e = Engine
          /\ r.f.deleted =>
               /\ r.e.orderBook.bids = WithoutOrder(orderBook.bids, id)
               /\ r.e.orderBook.asks = WithoutOrder(orderBook.asks, id)
               /\ r.e.mem = mem
               /\ r.e.tradeStore = tradeStore
               /\ r.e.orderStore.orders = orderStore.orders \ {id}

\* C17 witness: an order that never traded was cancelled out of a level in which an
\* order placed after it still rests, and the trade stream is not empty.
C17_Witness ==
  /\ AllIdle
  /\ tradeStore # << >>
  /\ \E id \in DOMAIN submitted :
       /\ submitted[id].OrderType = LimitOrder /\ submitted[id].Size > 0
       /\ TradesOf(id) = << >>
       /\ id \notin BookIDs(orderBook)
       /\ submitted[id].Price \in DOMAIN OwnSide(orderBook, submitted[id].Side)
       /\ \E other \in Range(OwnSide(orderBook, submitted[id].Side)[submitted[id].Price]) :
            other > id

\* The MARKET and LIMIT submissions that can neither trade nor rest on book ob: those
\* of size 0, and the MARKET orders when the opposite side is empty.
NoEffectSubmissions(ob) ==
  {o \in MarketSubmissions \cup LimitSubmissions :
     \/ o.Size = 0
     \/ o.OrderType = MarketOrder /\ OtherSide(ob, o.Side) = << >>}

\* C18 (as claimed): a zero-size order, or a MARKET order against an empty opposite
\* side, returns no trades and leaves the book, the residuals, the order index and
\* the trade stream as they were.
C18_NoEffectFrame ==
  AllIdle /\ nextOrderID < MaxOrderID =>
    \A o \in NoEffectSubmissions(orderBook) :
      LET r == PlaceOrderOn(Engine, o)
      IN  /\ r.f.trades = << >>
          /\ r.e.orderBook = orderBook
          /\ Residuals(r.e) = Residuals(Engine)
          /\ r.e.orderStore.orders = orderStore.orders
          /\ r.e.tradeStore = tradeStore

\* C19: a STOP-MARKET, STOP-LIMIT or NO-OP order returns no trades and leaves the
\* book (levels, ids, residuals) and the trade stream as they were, whatever the
\* book holds.
C19_InertOrders ==
  AllIdle /\ nextOrderID < MaxOrderID =>
    \A o \in InertSubmissions :
      LET r == PlaceOrderOn(Engine, o)
      IN  /\ r.f.trades = << >>
          /\ r.e.orderBook = orderBook
          /\ Residuals(r.e) = Residuals(Engine)
          /\ r.e.tradeStore = tradeStore

\* C19 witness: the order placed last is an inert one, placed while orders rest on the
\* side it would have traded against; it is not in the book and no trade names it.
C19_Witness ==
  /\ AllIdle
  /\ nextOrderID \in DOMAIN submitted
  /\ LET o == submitted[nextOrderID]
     IN  /\ o.OrderType \in {NoActionOrder, StopMarketOrder, StopLimitOrder}
         /\ OtherSide(orderBook, o.Side) # << >>
         /\ o.ID \notin BookIDs(orderBook)
         /\ TradesOf(o.ID) = << >>

\* C20: the trades a PlaceOrder call appends to the trade stream are the trades it
\* returns, each once and in the returned order, and that order is the matching
\* order: best price first (ascending for a buy, descending for a sell) and, at one
\* price, the resting order inserted earlier first.
C20_StreamIsReturned ==
  AllIdle /\ nextOrderID < MaxOrderID =>
    \A o \in MarketSubmissions \cup LimitSubmissions :
      LET r == PlaceOrderOn(Engine, o)
          ts == r.f.trades
          resting(t) == IF o.Side = Buy THEN t.SellOrderID ELSE t.BuyOrderID
      IN  /\ r.e.tradeStore = tradeStore \o ts
          /\ \A j, k \in DOMAIN ts :
               j < k =>
                 /\ IF o.Side = Buy THEN ts[j].Price <= ts[k].Price
                    ELSE ts[j].Price >= ts[k].Price
                 /\ ts[j].Price = ts[k].Price => resting(ts[j]) < resting(ts[k])

\* C20 witness: the last call that traded returned two trades or more, and they are
\* the end of the trade stream.
C20_Witness ==
  /\ AllIdle
  /\ Len(last.trades) >= 2
  /\ Len(tradeStore) >= Len(last.trades)
  /\ SubSeq(tradeStore, Len(tradeStore) - Len(last.trades) + 1, Len(tradeStore)) = last.trades

\* C21 (as claimed): when two concurrent calls have returned, the trades they
\* appended to the trade stream are all the trades of one call followed by all the
\* trades of the other: the trades of different PlaceOrder calls are not interleaved.
RoundTrades == SubSeq(tradeStore, Len(round.base.tradeStore) + 1, Len(tradeStore))

C21_TradesNotInterleaved ==
  round.done =>
    \/ RoundTrades = round.returns[1].trades \o round.returns[2].trades
    \/ RoundTrades = round.returns[2].trades \o round.returns[1].trades

\* C22 (as claimed): a top-of-book read served while a PlaceOrder / CancelOrder call
\* runs answers with the book as it was between two complete calls: its response is
\* the response the engine would give before that call began or after it has
\* returned, never one taken from the middle of the call.
BeforeCall == IF round.calls = << >> THEN Engine ELSE round.base
AfterCall == Run(Engine, frames[1]).e

C22_SnapshotRead ==
  reader.pc = "response" =>
    TopOfBookResponse(reader) \in {TopOfBook(BeforeCall), TopOfBook(AfterCall)}

\* C23: GenerateOrderID never returns an id twice, also when several handlers call it
\* at once, and every id it returns is greater than every id it returned before;
\* cancelling an order does not make its id available again.
Generated == {t \in Threads : frames[t].pc = "generated"}
Issued == DOMAIN submitted \cup {frames[t].incoming.ID : t \in Generated}

C23_FreshIds ==
  [][\A t \in Threads :
       frames[t].pc = "idle" /\ frames'[t].pc = "generated"
         => /\ frames'[t].incoming.ID \notin Issued
            /\ \A id \in Issued : frames'[t].incoming.ID > id]_vars

\* C23 witness: a handler holds a generated id while a handler that generated later
\* has already placed its order, and an order placed earlier was cancelled.
C23_Witness ==
  /\ \E t \in Generated : \E b \in DOMAIN submitted : b > frames[t].incoming.ID
  /\ \E a \in DOMAIN submitted :
       /\ submitted[a].OrderType = LimitOrder
       /\ TradesOf(a) = << >>
       /\ a \notin BookIDs(orderBook)
       /\ \E t \in Generated : frames[t].incoming.ID > a

\* C24 (as claimed): GetRecent(limit) of a trade store that serves reads returns the
\* min(limit, number stored) trades appended last, newest first.  (The file store is
\* write-only and answers with no trades.)
NewestFirst(trades, n) == [i \in 1..n |-> trades[Len(trades) - i + 1]]

C24_GetRecentNewestFirst ==
  storeCall.op = "GetRecent" =>
    /\ storeCall.trades.memory =
         NewestFirst(memoryTradeStore.trades, Min(storeCall.limit, Len(memoryTradeStore.trades)))
    /\ storeCall.trades.composite = storeCall.trades.memory

\* C25: the in-process trade store never holds more than its capacity, and holds
\* exactly the last min(capacity, saved) trades of those saved, in the order saved.
C25_RingBuffer ==
  LET n == Min(memoryTradeStore.maxSize, Len(savedTrades))
  IN  /\ Len(memoryTradeStore.trades) <= memoryTradeStore.maxSize
      /\ memoryTradeStore.trades = SubSeq(savedTrades, Len(savedTrades) - n + 1, Len(savedTrades))

\* C25 witness: more trades were saved than the store holds, some of them in a batch,
\* and the store is full.
C25_Witness ==
  /\ memoryTradeStore.maxSize > 0
  /\ Len(savedTrades) > memoryTradeStore.maxSize
  /\ Len(memoryTradeStore.trades) = memoryTradeStore.maxSize
  /\ storeCall.op = "SaveBatch"

\* C26 (as claimed): the records of the audit file are in the order in which the
\* trades were saved.
SavedIndex(record) == CHOOSE k \in DOMAIN savedTrades : Encode(savedTrades[k]) = record

C26_AuditOrder ==
  \A i, j \in DOMAIN fileTradeStore.file :
    i < j => SavedIndex(fileTradeStore.file[i]) < SavedIndex(fileTradeStore.file[j])

\* C27 (as claimed): when Close returns, every trade whose Save was accepted before
\* is in the audit file.
C27_CloseDrains ==
  storeCall.op = "Close" =>
    \A k \in DOMAIN storeCall.saved : Encode(storeCall.saved[k]) \in Range(fileTradeStore.file)

\* C28 (as claimed): a write of the composite store (Save, Remove, Update) returns
\* success if the write succeeded on at least one layer, and returns the last error
\* only when it failed on every layer.
StoreWrites == {"Save", "Remove", "Update"}

C28_SuccessIfAnyLayer ==
  storeCall.op \in StoreWrites =>
    IF \E i \in DOMAIN storeCall.errs : storeCall.errs[i] = Nil
    THEN storeCall.ret = Nil
    ELSE storeCall.ret = storeCall.errs[Len(storeCall.errs)]

\* C29: a write of the composite store is attempted on every layer, in order,
\* whatever the earlier layers answered: after the call every layer whose write did
\* not fail holds the record (after Save, Update) or no longer holds it (after Remove).
C29_WriteEveryLayer ==
  storeCall.op \in StoreWrites =>
    /\ Len(storeCall.errs) = Len(stores)
    /\ \A i \in DOMAIN stores :
         storeCall.errs[i] = Nil =>
           IF storeCall.op = "Remove" THEN storeCall.id \notin stores[i].s.orders
           ELSE storeCall.id \in stores[i].s.orders

\* C29 witness: the first layer refused the write (Update of an id it does not hold)
\* and the layer after it was written all the same.
C29_Witness ==
  /\ storeCall.op = "Update"
  /\ storeCall.errs = <<NotFound, Nil>>
  /\ storeCall.id \notin stores[1].s.orders
  /\ storeCall.id \in stores[2].s.orders

\* C30 (as claimed): Get of the composite store takes the answer of the first layer
\* that answers, found or not found, and goes on to the next layer only when a layer
\* returns an error other than not-found.
C30_NotFoundIsAnswer ==
  storeCall.op = "Get" =>
    LET out(i) == StoreGet(stores[i], storeCall.id, i \in storeCall.down)
        answering == {i \in DOMAIN stores : out(i).err \in {Nil, NotFound}}
    IN  IF answering = {} THEN ~storeCall.found
        ELSE storeCall.found = out(SetMin(answering)).found

\* C31: when the in-process order store is full and a new id is saved, exactly one
\* entry is evicted, the one inserted earliest among those held; reading or saving
\* again an id already held does not move it, and no other call evicts anything.
Evicted == storeLog.before \ orderStore.orders

C31_EvictsOldestInserted ==
  orderStore.maxSize > 0 =>
    IF /\ storeLog.op = "Save"
       /\ storeLog.id \notin storeLog.before
       /\ Cardinality(storeLog.before) = orderStore.maxSize
    THEN \E x \in storeLog.before :
           /\ Evicted = {x}
           /\ \A y \in storeLog.before : storeLog.insertedAt[x] <= storeLog.insertedAt[y]
    ELSE Evicted = IF storeLog.op = "Remove" THEN storeLog.before \cap {storeLog.id} ELSE {}

\* An entry is evicted although it was read or saved again after the surviving entry
\* was inserted.
C31_Witness ==
  /\ orderStore.maxSize > 1
  /\ storeLog.op = "Save"
  /\ storeLog.id \notin storeLog.before
  /\ \E x \in Evicted, y \in storeLog.before \ Evicted :
       storeLog.touchedAt[x] > storeLog.insertedAt[y]

\* C32: Remove is an idempotent delete on every backend: in every layer, removing an
\* id the layer does not hold (never saved, or removed before) returns no error and
\* leaves the layer as it is.
C32_RemoveIdempotent ==
  \A i \in DOMAIN stores, id \in StoredOrderIDs :
    id \notin stores[i].s.orders =>
      StoreRemove(stores[i], id, FALSE) = [layer |-> stores[i], err |-> Nil]

\* C33: a store failure never changes matching: whatever Redis calls fail during a
\* place or a cancel, the call returns what it returns with no failure (the same
\* trades, the same cancel result, never an error) and leaves the same book and the
\* same orders.
C33_StoreFailureUnseen ==
  AllIdle =>
    /\ nextOrderID < MaxLayeredOrderID =>
         \A o \in IdsOrders(GenerateOrderID), down \in FailurePatterns :
           LET failing == LayeredPlaceOrderOn(Engine, backends, o, down)
               clean == LayeredPlaceOrderOn(Engine, backends, o, {})
           IN  /\ failing.f.trades = clean.f.trades
               /\ failing.f.pc = clean.f.pc
               /\ failing.e.orderBook = clean.e.orderBook
               /\ failing.e.mem = clean.e.mem
    /\ \A id \in (FirstOrderID + 1)..MaxLayeredOrderID, down \in FailurePatterns :
         LET failing == LayeredCancelOrderOn(Engine, backends, id, down)
             clean == LayeredCancelOrderOn(Engine, backends, id, {})
         IN  /\ failing.f.deleted = clean.f.deleted
             /\ failing.f.pc = clean.f.pc
             /\ failing.e.orderBook = clean.e.orderBook

\* Calls have run through failures of both stores: a resting order that traded is
\* missing from the Redis layer, and so is a trade.
C33_Witness ==
  /\ AllIdle
  /\ \E id \in BookIDs(orderBook) : id \notin DOMAIN backends.redis.orders /\ TradesOf(id) # << >>
  /\ Len(backends.redis.trades) < Len(tradeStore)

\* C34: whatever backend fails to initialise at startup, the stores are built from
\* exactly the backends that initialised (a store whose constructor failed is never
\* in a stack, a backend that is enabled and initialised is in both), and the engine
\* serves with them: no call on the trade store panics.
Enabled(cfg, backend) ==
  CASE backend = "memory" -> cfg.Memory
    [] backend = "redis" -> cfg.Redis
    [] backend = "postgres" -> cfg.Database
    [] backend = "file" -> TRUE

\* The constructors of a backend's order store and of its trade store.
OrderStoreOf(backend) ==
  CASE backend = "redis" -> {"NewRedisOrderStore"}
    [] backend = "postgres" -> {"NewPostgresOrderStore"}
    [] OTHER -> {}

TradeStoreOf(backend) ==
  CASE backend = "redis" -> {"NewRedisTradeStore"}
    [] backend = "postgres" -> {"NewPostgresTradeStore"}
    [] backend = "file" -> {"NewFileTradeStore"}
    [] OTHER -> {}

C34_OnlyInitialisedBackends ==
  LET cfg == deployment.cfg
      failed == deployment.failed
  IN  /\ \A backend \in {"memory", "redis", "postgres"} :
           /\ backend \in Range(deployment.orderStores)
                <=> Enabled(cfg, backend) /\ OrderStoreOf(backend) \cap failed = {}
           /\ backend \in Range(deployment.tradeStores)
                => Enabled(cfg, backend) /\ TradeStoreOf(backend) \cap failed = {}
           /\ Enabled(cfg, backend) /\ (OrderStoreOf(backend) \cup TradeStoreOf(backend)) \cap failed = {}
                => backend \in Range(deployment.tradeStores)
      /\ "file" \in Range(deployment.tradeStores) <=> TradeStoreOf("file") \cap failed = {}
      /\ NilStore \notin Range(deployment.tradeStores)
      /\ storeCall.ret # Panic

\* C37: Engine.GetRecentTrades returns the trades newest first, whichever layer
\* serves the read: each trade of the answer is later than the one after it.
C37_NewestFirstFromAnyLayer ==
  storeCall.op = "GetRecentTrades" /\ storeCall.ret # Panic =>
    \A i, j \in DOMAIN storeCall.trades :
      i < j => storeCall.trades[i].Timestamp > storeCall.trades[j].Timestamp

\* C35: GetBestBid returns the highest-priced bid level and GetBestAsk the
\* lowest-priced ask level whenever the side holds an order, and the empty sentinel
\* only when the side is empty, at every price the engine lets into the book.
C35_BestOfSide ==
  /\ IF SidePrices(orderBook.bids) = {} THEN GetBestBid(orderBook).block = << >>
     ELSE /\ GetBestBid(orderBook).price = SetMax(SidePrices(orderBook.bids))
          /\ GetBestBid(orderBook).block = orderBook.bids[SetMax(SidePrices(orderBook.bids))]
  /\ IF SidePrices(orderBook.asks) = {} THEN GetBestAsk(orderBook).block = << >>
     ELSE /\ GetBestAsk(orderBook).price = SetMin(SidePrices(orderBook.asks))
          /\ GetBestAsk(orderBook).block = orderBook.asks[SetMin(SidePrices(orderBook.asks))]

\* C36: once an order has been cancelled with result true, or filled down to residual
\* zero, no trade created afterwards references its id, also when the cancel runs
\* beside a place call that could match the same resting order.
Cancelled == {frames[c].incoming.ID : c \in {c \in Threads : frames[c].deleted}}
FullyFilled == {id \in DOMAIN mem \cap DOMAIN submitted : submitted[id].Size > 0 /\ mem[id].Size = 0}

C36_NoTradeAfterCancelOrFill ==
  [][\A t \in Threads :
       Len(frames'[t].trades) > Len(frames[t].trades) =>
         LET trade == frames'[t].trades[Len(frames'[t].trades)]
         IN  {trade.BuyOrderID, trade.SellOrderID} \cap (Cancelled \cup FullyFilled) = {}]_vars

\* C38: after every place, the size recorded for each resting order in the order
\* index equals its residual in the book, in every layer that holds the order.  The
\* in-process layer holds the Order object the book holds; the Redis layer holds what
\* was serialised when the order was saved.
RecordedSizes(id) ==
  {mem[i].Size : i \in orderStore.orders \cap {id}}
  \cup {backends.redis.orders[i].Size : i \in DOMAIN backends.redis.orders \cap {id}}

C38_RecordedSizeIsResidual ==
  AllIdle => \A id \in BookIDs(orderBook) : \A size \in RecordedSizes(id) : size = mem[id].Size

\* C39: the in-process order store never holds more orders than its configured
\* capacity, after any sequence of save and remove calls, for every capacity the
\* engine constructors can pass, 0 included.
C39_NeverOverCapacity ==
  Cardinality(orderStore.orders) <= orderStore.maxSize

\* C40: every place call terminates: each iteration of the matching loop either
\* brings the incoming order's residual to zero or removes the resting order at the
\* head of the best opposite level, so a call makes at most one iteration per resting
\* opposite order, plus the one that leaves the loop.
OppositeIDs(ob, side) == SideIDs(IF side = Buy THEN ob.asks ELSE ob.bids)

RECURSIVE RunWithin(_, _, _)
RunWithin(e, f, steps) ==
  IF Returned(f) \/ f.pc = "idle" \/ steps = 0 THEN [e |-> e, f |-> f]
  ELSE LET r == Step(e, f) IN RunWithin(r.e, r.f, steps - 1)

\* An iteration that was followed by another did not bring the residual to zero, so
\* it removed the order it filled.
EachIterationRemoves(f) ==
  \A k \in 1..(Len(f.fills) - 1) :
    f.fills[k].resting \notin OppositeIDs(f.fills[k + 1].orderBook, f.incoming.Side)

C40_PlaceTerminates ==
  /\ \A t \in Threads : EachIterationRemoves(frames[t])
  /\ AllIdle /\ nextOrderID < MaxOrderID =>
       \A o \in Submissions(Prices, Sizes) :
         LET resting == Cardinality(OppositeIDs(orderBook, o.Side))
             \* per iteration: loop, fill, update, deleteOrder, untrackOpposite; then
             \* the last loop test, rest, one save per trade, untrackMarket
             r == RunWithin([Engine EXCEPT !.mem = MapPut(mem, o.ID, o)], PlaceFrame(o),
                            6 * resting + 4)
         IN  /\ Returned(r.f)
             /\ r = PlaceOrderOn(Engine, o)
             /\ Len(r.f.fills) <= resting
             /\ EachIterationRemoves(r.f)
             /\ Len(r.f.fills) > 0 =>
                  \/ r.f.sizeRemaining = 0
                  \/ r.f.fills[Len(r.f.fills)].resting \notin BookIDs(r.e.orderBook)

====
